---- MODULE Spec2Model ----
(***************************************************************************)
(* Model of the family-graph dashboard's Visibility Gate                   *)
(* (src/src/lib/visibility-gate.ts) and of the page that renders its       *)
(* output.  A graph is a record [nodes, edges]; ids are strings, modelled  *)
(* as sequences of characters so that String.startsWith is computed.       *)
(***************************************************************************)
EXTENDS Integers, Sequences, FiniteSets, TLC

\* ------------------------------------------------------------------------
\* Values

\* An optional field that is absent (JavaScript undefined).
Undefined == "undefined"

\* findOwner's "no owner" result (JavaScript null); every id is non-empty.
Null == << >>

\* The reserved id prefix of members, "m-".
MemberPrefix == <<"m", "-">>

\* String.prototype.startsWith
StartsWith(s, p) ==
    /\ Len(s) >= Len(p)
    /\ SubSeq(s, 1, Len(p)) = p

\* a ?? b
Nullish(a, b) == IF a = Undefined THEN b ELSE a

\* ------------------------------------------------------------------------
\* Bounds of the explored inputs

\* Longest edge list explored.
MaxEdges == 2

\* Calls of the gate followed on one graph.
MaxCalls == 3

IdA == <<"m", "-", "a">>
IdB == <<"m", "-", "b">>
IdD == <<"d", "-", "1">>

\* Ids used for nodes, edge endpoints and the viewer.
Ids == {IdA, IdB, IdD}

\* The relations the gate reads.
RoleRelations == {"parent_of", "grandparent_of", "caregiver_of"}

\* The relations explored: between two members the role relations and one
\* the gate does not read; between a member and another node, ownership.
MemberRelations == RoleRelations \cup {"sibling_of"}

OwnershipRelations == {"owns_device"}

Relations == MemberRelations \cup OwnershipRelations

\* The four values of the Visibility type, the absent field, and a value
\* outside the type (an imported file may carry any string).
Visibilities == {Undefined, "family", "private", "guarded", "health_only", "public"}

RiskLevels == {Undefined, "low", "high"}

\* A node of the FamilyNode union; fields a variant lacks are Undefined.
\* isAchievement is tested for truthiness only: absent is FALSE.
Node(id, type, role, docType, vis, risk, ach) ==
    [id |-> id, type |-> type, role |-> role, docType |-> docType,
     visibility |-> vis, riskLevel |-> risk, isAchievement |-> ach]

\* Member nodes with default optional fields.
PlainMembers(id, roles) ==
    {Node(id, "member", r, Undefined, Undefined, Undefined, FALSE) : r \in roles}

\* Nodes of every explored variant with every combination of optional fields.
Variants ==
    {<<"member", "child", Undefined>>,
     <<"document", Undefined, "financial">>,
     <<"device", Undefined, Undefined>>}

AnyNodes(id) ==
    {Node(id, k[1], k[2], k[3], v, r, a) :
        k \in Variants, v \in Visibilities, r \in RiskLevels, a \in BOOLEAN}

\* Zero or one node per id, in a fixed order (node ids are unique).
OptSeq(S) == {<< >>} \cup {<<x>> : x \in S}

\* m-a (absent, a parent or a caregiver), then m-b (a child), then d-1
\* (absent or any node).
NodeLists ==
    {a \o b \o d :
        a \in OptSeq(PlainMembers(IdA, {"parent", "caregiver"})),
        b \in {<<x>> : x \in PlainMembers(IdB, {"child"})},
        d \in OptSeq(AnyNodes(IdD))}

\* Edges between two different ids, in either direction: an ownership edge
\* when d-1 is an endpoint, an edge between members otherwise.
EdgeSet ==
    {e \in [source : Ids, target : Ids, relation : Relations] :
        /\ e.source # e.target
        /\ IF IdD \in {e.source, e.target}
           THEN e.relation \in OwnershipRelations
           ELSE e.relation \in MemberRelations}

\* The ids the viewer is selected from.
ViewerIds == {IdA, IdB}

EdgeLists == UNION {[1..n -> EdgeSet] : n \in 0..MaxEdges}

EmptyGraph == [nodes |-> << >>, edges |-> << >>]

\* ------------------------------------------------------------------------
\* src/src/lib/visibility-gate.ts

RECURSIVE FindOwnerFrom(_, _, _)
FindOwnerFrom(nodeId, edges, i) ==
    IF i > Len(edges) THEN Null
    ELSE IF edges[i].target = nodeId /\ StartsWith(edges[i].source, MemberPrefix)
         THEN edges[i].source
    ELSE IF edges[i].source = nodeId /\ StartsWith(edges[i].target, MemberPrefix)
         THEN edges[i].target
    ELSE FindOwnerFrom(nodeId, edges, i + 1)

\* findOwner returning the owner of the last qualifying edge.
MutFindOwnerLast(nodeId, edges) ==
    LET hits == {i \in 1..Len(edges) :
                    \/ edges[i].target = nodeId /\ StartsWith(edges[i].source, MemberPrefix)
                    \/ edges[i].source = nodeId /\ StartsWith(edges[i].target, MemberPrefix)}
        last == CHOOSE i \in hits : \A j \in hits : j <= i
    IN IF hits = {} THEN Null
       ELSE IF edges[last].target = nodeId /\ StartsWith(edges[last].source, MemberPrefix)
            THEN edges[last].source
       ELSE edges[last].target

\* findOwner reading only the edges that point to the node.
MutFindOwnerTargetOnly(nodeId, edges) ==
    LET hits == {i \in 1..Len(edges) :
                    /\ edges[i].target = nodeId
                    /\ StartsWith(edges[i].source, MemberPrefix)}
    IN IF hits = {} THEN Null
       ELSE edges[CHOOSE i \in hits : \A j \in hits : i <= j].source

findOwner(nodeId, edges) == FindOwnerFrom(nodeId, edges, 1)

isParentOf(viewerId, ownerId, edges) ==
    \E i \in 1..Len(edges) :
        /\ edges[i].relation = "parent_of"
        /\ edges[i].source = viewerId
        /\ edges[i].target = ownerId

\* isGrandparentOf that also infers a grandparent from two parent_of hops.
MutGrandparentByTwoHops(viewerId, ownerId, edges) ==
    \/ \E i \in 1..Len(edges) :
          /\ edges[i].relation = "grandparent_of"
          /\ edges[i].source = viewerId
          /\ edges[i].target = ownerId
    \/ \E i, j \in 1..Len(edges) :
          /\ edges[i].relation = "parent_of" /\ edges[j].relation = "parent_of"
          /\ edges[i].source = viewerId
          /\ edges[i].target = edges[j].source
          /\ edges[j].target = ownerId

isGrandparentOf(viewerId, ownerId, edges) ==
    \E i \in 1..Len(edges) :
        /\ edges[i].relation = "grandparent_of"
        /\ edges[i].source = viewerId
        /\ edges[i].target = ownerId

isCaregiverOf(viewerId, ownerId, edges) ==
    \E i \in 1..Len(edges) :
        /\ edges[i].relation = "caregiver_of"
        /\ edges[i].source = viewerId
        /\ edges[i].target = ownerId

isFinancialDoc(node) ==
    node.type = "document" /\ node.docType # Undefined /\ node.docType = "financial"

\* graph.nodes.find((n) => n.id === viewerId)?.role
RECURSIVE FindRoleFrom(_, _, _)
FindRoleFrom(nodes, viewerId, i) ==
    IF i > Len(nodes) THEN Undefined
    ELSE IF nodes[i].id = viewerId THEN nodes[i].role
    ELSE FindRoleFrom(nodes, viewerId, i + 1)

ViewerRole(graph, viewerId) == FindRoleFrom(graph.nodes, viewerId, 1)

\* The caregiver's care targets include the owner.
CareTargetsInclude(viewerId, ownerId, edges) ==
    \E i \in 1..Len(edges) :
        /\ edges[i].relation = "caregiver_of"
        /\ edges[i].source = viewerId
        /\ edges[i].target = ownerId

\* HealthOnlyVisible without the grandparent test of line 100.
MutHealthOnlyNoGrandparent(ownerId, viewerId, viewerRole, edges) ==
    IF ownerId = Null THEN FALSE
    ELSE IF isParentOf(viewerId, ownerId, edges) THEN TRUE
    ELSE IF isCaregiverOf(viewerId, ownerId, edges) THEN TRUE
    ELSE IF viewerRole = "caregiver" /\ CareTargetsInclude(viewerId, ownerId, edges)
         THEN TRUE
    ELSE FALSE

HealthOnlyVisible(ownerId, viewerId, viewerRole, edges) ==
    IF ownerId = Null THEN FALSE
    ELSE IF isParentOf(viewerId, ownerId, edges) THEN TRUE
    ELSE IF isGrandparentOf(viewerId, ownerId, edges) THEN TRUE
    ELSE IF isCaregiverOf(viewerId, ownerId, edges) THEN TRUE
    ELSE IF viewerRole = "caregiver" /\ CareTargetsInclude(viewerId, ownerId, edges)
         THEN TRUE
    ELSE FALSE

\* GuardedVisible without the caregiver test of line 116.
MutGuardedNoCaregiverTest(node, ownerId, viewerId, viewerRole, edges) ==
    IF ownerId # Null /\ isParentOf(viewerId, ownerId, edges) THEN TRUE
    ELSE IF ownerId # Null /\ isGrandparentOf(viewerId, ownerId, edges) THEN TRUE
    ELSE IF node.riskLevel = "high" /\ ownerId # Null
            /\ isParentOf(ownerId, viewerId, edges) THEN TRUE
    ELSE FALSE

\* GuardedVisible without the reverse safety override of line 122.
MutGuardedNoReverseOverride(node, ownerId, viewerId, viewerRole, edges) ==
    IF viewerRole = "caregiver" THEN FALSE
    ELSE IF ownerId # Null /\ isParentOf(viewerId, ownerId, edges) THEN TRUE
    ELSE IF ownerId # Null /\ isGrandparentOf(viewerId, ownerId, edges) THEN TRUE
    ELSE FALSE

GuardedVisible(node, ownerId, viewerId, viewerRole, edges) ==
    IF viewerRole = "caregiver" THEN FALSE
    ELSE IF ownerId # Null /\ isParentOf(viewerId, ownerId, edges) THEN TRUE
    ELSE IF ownerId # Null /\ isGrandparentOf(viewerId, ownerId, edges) THEN TRUE
    ELSE IF node.riskLevel = "high" /\ ownerId # Null
            /\ isParentOf(ownerId, viewerId, edges) THEN TRUE
    ELSE FALSE

\* PrivateVisible without the safety override: private means owner only.
MutPrivateOwnerOnly(node, ownerId, viewerId, edges) == FALSE

\* PrivateVisible with the override granted whatever the riskLevel.
MutPrivateAnyRisk(node, ownerId, viewerId, edges) ==
    IF ownerId # Null /\ isParentOf(viewerId, ownerId, edges) THEN TRUE
    ELSE FALSE

PrivateVisible(node, ownerId, viewerId, edges) ==
    IF node.riskLevel = "high" /\ ownerId # Null
       /\ isParentOf(viewerId, ownerId, edges) THEN TRUE
    ELSE FALSE

\* ClassVisible failing closed: an unrecognized visibility hides the node.
MutClassFailClosed(node, visibility, ownerId, viewerId, viewerRole, edges) ==
    IF visibility = "health_only"
    THEN HealthOnlyVisible(ownerId, viewerId, viewerRole, edges)
    ELSE IF visibility = "guarded"
    THEN GuardedVisible(node, ownerId, viewerId, viewerRole, edges)
    ELSE IF visibility = "private"
    THEN PrivateVisible(node, ownerId, viewerId, edges)
    ELSE FALSE

\* Lines 94-138: the rule of the node's visibility class.
ClassVisible(node, visibility, ownerId, viewerId, viewerRole, edges) ==
    IF visibility = "health_only"
    THEN HealthOnlyVisible(ownerId, viewerId, viewerRole, edges)
    ELSE IF visibility = "guarded"
    THEN GuardedVisible(node, ownerId, viewerId, viewerRole, edges)
    ELSE IF visibility = "private"
    THEN PrivateVisible(node, ownerId, viewerId, edges)
    ELSE TRUE

\* GatedVisible without the owner test of line 92.
MutGatedNoOwnerTest(node, graph, viewerId, viewerRole) ==
    LET visibility == Nullish(node.visibility, "family")
        ownerId == findOwner(node.id, graph.edges)
    IN IF visibility = "family" THEN TRUE
       ELSE ClassVisible(node, visibility, ownerId, viewerId, viewerRole, graph.edges)

\* Lines 84-138: a node that is neither an achievement nor a member.
GatedVisible(node, graph, viewerId, viewerRole) ==
    LET visibility == Nullish(node.visibility, "family")
        ownerId == findOwner(node.id, graph.edges)
    IN IF visibility = "family" THEN TRUE
       ELSE IF ownerId = viewerId THEN TRUE
       ELSE ClassVisible(node, visibility, ownerId, viewerId, viewerRole, graph.edges)

\* NodeVisible without the achievement test of line 79.
MutNodeVisibleNoAchievement(node, graph, viewerId, viewerRole) ==
    IF node.type = "member" THEN TRUE
    ELSE GatedVisible(node, graph, viewerId, viewerRole)

\* NodeVisible without the member test of line 82.
MutNodeVisibleNoMember(node, graph, viewerId, viewerRole) ==
    IF node.isAchievement THEN TRUE
    ELSE GatedVisible(node, graph, viewerId, viewerRole)

\* The callback of the first graph.nodes.filter.
NodeVisible(node, graph, viewerId, viewerRole) ==
    IF node.isAchievement THEN TRUE
    ELSE IF node.type = "member" THEN TRUE
    ELSE GatedVisible(node, graph, viewerId, viewerRole)

\* The second filter dropped: every node that passed the first is kept.
MutKeepFinancial(node, viewerRole) == TRUE

\* The callback of the second filter: caregivers never see financial documents.
NotCaregiverFinancial(node, viewerRole) ==
    ~(viewerRole = "caregiver" /\ isFinancialDoc(node))

\* The edge filter testing the source only.
MutEdgeSourceOnly(e, visibleIds) == e.source \in visibleIds

\* The edge filter with || for &&.
MutEdgeEitherEnd(e, visibleIds) == e.source \in visibleIds \/ e.target \in visibleIds

\* The callback of graph.edges.filter.
EdgeVisible(e, visibleIds) == e.source \in visibleIds /\ e.target \in visibleIds

applyVisibilityGate(graph, viewerId) ==
    LET viewerRole == ViewerRole(graph, viewerId)
        visibleNodes ==
            SelectSeq(graph.nodes,
                      LAMBDA node : NodeVisible(node, graph, viewerId, viewerRole))
        filteredNodes ==
            SelectSeq(visibleNodes,
                      LAMBDA node : NotCaregiverFinancial(node, viewerRole))
        visibleIds == {filteredNodes[i].id : i \in 1..Len(filteredNodes)}
        visibleEdges ==
            SelectSeq(graph.edges,
                      LAMBDA e : EdgeVisible(e, visibleIds))
    IN [nodes |-> filteredNodes, edges |-> visibleEdges]

\* ------------------------------------------------------------------------
\* State: the full graph and the selected viewer (the gate's inputs), the
\* graph rendered for the viewer (rawData, the gate's output) and the result of
\* gating that output again for the same viewer.

VARIABLES fullData, viewerId, rawData, regated, pc

\* State of the other components: the history of repeated calls of the
\* gate on one graph (seen), a findOwner call and its result
\* (ownerQuery, ownerFound), and a value_filter call and its result
\* (data, vf).
VARIABLES seen, ownerQuery, ownerFound, data, vf

gateVars == <<fullData, viewerId, rawData, regated, pc>>

\* State of the assistant's filters and of the dashboard page: a
\* scholar_filter call and its result (scholar).
\* scholar_filter call and its result (scholar), and a second graph gated
\* beside fullData for the same viewer, with its output (variant).
VARIABLES scholar, variant

\* The dashboard's inputs and the alerts computed from them (alerts).
VARIABLES alerts

\* The home page's state (dashboard), the staggered import (importer) and
\* the celebrations in progress (celebration).
VARIABLES dashboard, importer, celebration

pageVars == <<dashboard, importer, celebration>>

laterVars == <<scholar, variant, alerts, dashboard, importer, celebration>>

vars == <<fullData, viewerId, rawData, regated, pc,
          seen, ownerQuery, ownerFound, data, vf, scholar, variant, alerts,
          dashboard, importer, celebration>>

\* No detector has run.
AlertsIdle == alerts = << >>

DashboardIdle == dashboard = << >>

ImporterIdle == importer = << >>

CelebrationIdle == celebration = << >>

PageIdle == DashboardIdle /\ ImporterIdle /\ CelebrationIdle

\* No scholar_filter call is under way.
ScholarIdle == scholar = << >>

\* No second graph is gated.
VariantIdle == variant = << >>

LaterIdle == ScholarIdle /\ VariantIdle /\ AlertsIdle /\ PageIdle

\* No call of the gate is recorded.
CallsIdle == seen = << >>

\* No findOwner call is under way.
OwnerIdle ==
    /\ ownerQuery = [nodeId |-> Null, edges |-> << >>]
    /\ ownerFound = Null

\* No value_filter call is under way.
NoResult == [restrictions |-> << >>, instruction |-> [text |-> "", lines |-> << >>]]

FilterIdle ==
    /\ data = EmptyGraph
    /\ vf = NoResult

Init ==
    /\ \E ns \in NodeLists, es \in EdgeLists : fullData = [nodes |-> ns, edges |-> es]
    /\ viewerId \in ViewerIds
    /\ rawData = EmptyGraph
    /\ regated = EmptyGraph
    /\ pc = "input"
    /\ CallsIdle /\ OwnerIdle /\ FilterIdle /\ LaterIdle

\* rawData = applyVisibilityGate(fullData, settings.viewerId)
Gate ==
    /\ pc = "input"
    /\ rawData' = applyVisibilityGate(fullData, viewerId)
    /\ pc' = "gated"
    /\ UNCHANGED <<fullData, viewerId, regated>>
    /\ UNCHANGED <<seen, ownerQuery, ownerFound, data, vf>>
    /\ UNCHANGED laterVars

\* The gate applied to its own output for the same viewer.
GateAgain ==
    /\ pc = "gated"
    /\ regated' = applyVisibilityGate(rawData, viewerId)
    /\ pc' = "regated"
    /\ UNCHANGED <<fullData, viewerId, rawData>>
    /\ UNCHANGED <<seen, ownerQuery, ownerFound, data, vf>>
    /\ UNCHANGED laterVars

Next == Gate \/ GateAgain

Spec == Init /\ [][Next]_vars

\* ------------------------------------------------------------------------
\* Vocabulary of the properties

\* The gate has run on fullData for viewerId.
Gated == pc \in {"gated", "regated"}

IdsOf(nodes) == {nodes[i].id : i \in 1..Len(nodes)}

NodesOf(graph) == {graph.nodes[i] : i \in 1..Len(graph.nodes)}

EdgesOf(graph) == {graph.edges[i] : i \in 1..Len(graph.edges)}

\* The node is among the nodes the gate returned.
Disclosed(n) == n \in NodesOf(rawData)

\* The role of the selected viewer's node, Undefined when there is none.
CurrentRole == ViewerRole(fullData, viewerId)

\* Every edge endpoint is a node and every id with the member prefix names
\* a member node.
WellFormed(graph) ==
    /\ \A e \in EdgesOf(graph) :
          e.source \in IdsOf(graph.nodes) /\ e.target \in IdsOf(graph.nodes)
    /\ \A n \in NodesOf(graph) : StartsWith(n.id, MemberPrefix) => n.type = "member"

\* The positions of the input edges joining two ids of the set, and the
\* j-th smallest of a set of positions.
KeptPositions(edges, ids) ==
    {i \in 1..Len(edges) : edges[i].source \in ids /\ edges[i].target \in ids}

NthOf(K, j) == CHOOSE i \in K : Cardinality({k \in K : k <= i}) = j

\* out's edges are in's edges at the kept positions, in input order.
ExactEdges(in, out) ==
    LET K == KeptPositions(in.edges, IdsOf(out.nodes))
    IN /\ Len(out.edges) = Cardinality(K)
       /\ \A j \in 1..Len(out.edges) : out.edges[j] = in.edges[NthOf(K, j)]

\* ------------------------------------------------------------------------
\* C1.  Idempotence: gating the gate's output again for the same viewer
\* returns the same nodes and the same edges, for every graph and every
\* viewer id, dangling edges and unknown viewers included.
C1_Idempotent == pc = "regated" => regated = rawData

\* Idempotence on graphs without dangling edges.
C1_IdempotentWellFormed ==
    (pc = "regated" /\ WellFormed(fullData)) => regated = rawData

C6_MembersAlways ==
    Gated => \A n \in NodesOf(fullData) : n.type = "member" => Disclosed(n)

\* A private member that is no achievement is disclosed to a viewer that
\* is not a node of the graph.
C6_Witness ==
    /\ pc = "gated"
    /\ viewerId \notin IdsOf(fullData.nodes)
    /\ \E n \in NodesOf(fullData) :
          /\ n.type = "member" /\ n.visibility = "private" /\ ~n.isAchievement
          /\ Disclosed(n)

\* ------------------------------------------------------------------------
\* C7.  Edge consistency: each output edge's source and target is the id of
\* a node of the output, for every input graph (dangling edges included).
C7_NoDanglingEdges ==
    /\ Gated =>
          \A e \in EdgesOf(rawData) :
              e.source \in IdsOf(rawData.nodes)
              /\ e.target \in IdsOf(rawData.nodes)
    /\ pc = "regated" =>
          \A e \in EdgesOf(regated) :
              e.source \in IdsOf(regated.nodes) /\ e.target \in IdsOf(regated.nodes)

\* The input has an edge to an id that is no node, and the output keeps
\* another edge.
C7_Witness ==
    /\ pc = "gated"
    /\ \E e \in EdgesOf(fullData) :
          e.source \notin IdsOf(fullData.nodes) \/ e.target \notin IdsOf(fullData.nodes)
    /\ Len(rawData.edges) >= 1

\* ------------------------------------------------------------------------
\* C8.  The output edge list is exactly the input edges, in input order,
\* whose source and target are both ids of disclosed nodes.
C8_ExactEdges ==
    /\ Gated => ExactEdges(fullData, rawData)
    /\ pc = "regated" => ExactEdges(rawData, regated)

\* Of two different input edges the first touches a hidden node and is
\* dropped, the second joins two disclosed nodes and is kept.
C8_Witness ==
    /\ pc = "gated"
    /\ Len(fullData.edges) = 2
    /\ fullData.edges[1] # fullData.edges[2]
    /\ \E n \in NodesOf(fullData) :
          ~Disclosed(n) /\ n.id \in {fullData.edges[1].source, fullData.edges[1].target}
    /\ rawData.edges = <<fullData.edges[2]>>

\* ------------------------------------------------------------------------
\* C9.  Private safety override: a private node with riskLevel high whose
\* owner c is resolved is disclosed to a viewer p with a parent_of edge
\* p -> c.
C9_ParentSeesHighRiskPrivate ==
    Gated =>
        \A n \in NodesOf(fullData) :
            LET c == findOwner(n.id, fullData.edges)
            IN ( /\ n.visibility = "private" /\ n.riskLevel = "high"
                 /\ c # Null
                 /\ isParentOf(viewerId, c, fullData.edges) )
                   => Disclosed(n)

\* C9 as amended: the node is disclosed to p unless p's role is caregiver
\* and the node is a financial document.
C9_ParentSeesHighRiskPrivateUnlessCaregiverFinancial ==
    Gated =>
        \A n \in NodesOf(fullData) :
            LET c == findOwner(n.id, fullData.edges)
            IN ( /\ n.visibility = "private" /\ n.riskLevel = "high"
                 /\ c # Null
                 /\ isParentOf(viewerId, c, fullData.edges)
                 /\ ~(CurrentRole = "caregiver" /\ isFinancialDoc(n)) )
                   => Disclosed(n)

\* A private high-risk node that is neither a member nor an achievement is
\* disclosed to a parent of its owner.
C9_Witness ==
    /\ pc = "gated"
    /\ \E n \in NodesOf(fullData) :
          LET c == findOwner(n.id, fullData.edges)
          IN /\ n.visibility = "private" /\ n.riskLevel = "high"
             /\ n.type # "member" /\ ~n.isAchievement
             /\ c # Null /\ c # viewerId
             /\ isParentOf(viewerId, c, fullData.edges)
             /\ Disclosed(n)

\* ------------------------------------------------------------------------
\* C10.  A private node that is neither a member nor an achievement is
\* disclosed only if the viewer is its resolved owner, or its riskLevel is
\* high and its resolved owner has a parent_of edge from the viewer.
C10_PrivateOnlyOwnerOrOverride ==
    Gated =>
        \A n \in NodesOf(fullData) :
            LET o == findOwner(n.id, fullData.edges)
            IN ( /\ n.type # "member" /\ ~n.isAchievement
                 /\ n.visibility = "private"
                 /\ Disclosed(n) )
                   => \/ o = viewerId
                      \/ /\ n.riskLevel = "high"
                         /\ o # Null
                         /\ isParentOf(viewerId, o, fullData.edges)

\* A private node whose riskLevel is not high is hidden from a parent of
\* its owner.
C10_Witness ==
    /\ pc = "gated"
    /\ \E n \in NodesOf(fullData) :
          LET o == findOwner(n.id, fullData.edges)
          IN /\ n.type # "member" /\ ~n.isAchievement
             /\ n.visibility = "private" /\ n.riskLevel = "low"
             /\ o # Null /\ o # viewerId
             /\ isParentOf(viewerId, o, fullData.edges)
             /\ ~Disclosed(n)

\* ------------------------------------------------------------------------
\* Further vocabulary

\* node.visibility ?? "family"
EffectiveVisibility(n) == Nullish(n.visibility, "family")

\* The four values of the Visibility type.
KnownVisibilities == {"family", "private", "guarded", "health_only"}

\* The node is neither a member nor an achievement: the rules of its
\* visibility class decide.
ClassGated(n) == n.type # "member" /\ ~n.isAchievement

\* The edge list has an edge source -> target with one of the relations.
HasEdge(graph, source, target, relations) ==
    \E e \in EdgesOf(graph) :
        e.source = source /\ e.target = target /\ e.relation \in relations

\* ------------------------------------------------------------------------
\* C11.  Missing viewer fails closed: when viewerId is the id of no node,
\* the returned nodes are exactly the achievements, the members and the
\* nodes of effective visibility family; every health_only, guarded and
\* private node is hidden.
C11_MissingViewerFailsClosed ==
    (Gated /\ viewerId \notin IdsOf(fullData.nodes)) =>
        \A n \in NodesOf(fullData) :
            EffectiveVisibility(n) \in KnownVisibilities =>
                (Disclosed(n) <=>
                    \/ n.isAchievement
                    \/ n.type = "member"
                    \/ EffectiveVisibility(n) = "family")

\* The same when no edge names the missing viewer.
C11_FailsClosedWithoutViewerEdges ==
    ( /\ Gated
      /\ viewerId \notin IdsOf(fullData.nodes)
      /\ \A e \in EdgesOf(fullData) : viewerId \notin {e.source, e.target} ) =>
        \A n \in NodesOf(fullData) :
            EffectiveVisibility(n) \in KnownVisibilities =>
                (Disclosed(n) <=>
                    \/ n.isAchievement
                    \/ n.type = "member"
                    \/ EffectiveVisibility(n) = "family")

C14_UnknownVisibilityFailsOpen ==
    Gated =>
        \A n \in NodesOf(fullData) :
            (n.type # "member" /\ EffectiveVisibility(n) \notin KnownVisibilities) =>
                /\ NodeVisible(n, fullData, viewerId, CurrentRole)
                /\ Disclosed(n) <=> ~(CurrentRole = "caregiver" /\ isFinancialDoc(n))

\* A node of unrecognized visibility that is no achievement and has no
\* owner is disclosed to a viewer that is no node of the graph.
C14_Witness ==
    /\ pc = "gated"
    /\ viewerId \notin IdsOf(fullData.nodes)
    /\ \E n \in NodesOf(fullData) :
          /\ ClassGated(n)
          /\ EffectiveVisibility(n) \notin KnownVisibilities
          /\ findOwner(n.id, fullData.edges) = Null
          /\ Disclosed(n)

\* ------------------------------------------------------------------------
\* findOwner on its own: any node id, any edge list

\* An id that begins with "m" but not with "m-".
IdM == <<"m", "o", "m">>

OwnerIds == Ids \cup {IdM}

\* Edges of either kind between any two ids, loops included.
OwnerEdgeSet ==
    [source : OwnerIds, target : OwnerIds, relation : {"owns_device", "parent_of"}]

OwnerEdgeLists == UNION {[1..n -> OwnerEdgeSet] : n \in 0..MaxEdges}

\* The gate is not in use.
GateIdle ==
    /\ fullData = EmptyGraph
    /\ viewerId = IdA
    /\ rawData = EmptyGraph
    /\ regated = EmptyGraph

InitOwner ==
    /\ \E id \in OwnerIds, es \in OwnerEdgeLists :
          ownerQuery = [nodeId |-> id, edges |-> es]
    /\ ownerFound = Null
    /\ pc = "query"
    /\ GateIdle /\ CallsIdle /\ FilterIdle /\ LaterIdle

FindOwner ==
    /\ pc = "query"
    /\ ownerFound' = findOwner(ownerQuery.nodeId, ownerQuery.edges)
    /\ pc' = "found"
    /\ UNCHANGED <<ownerQuery, seen, data, vf>>
    /\ UNCHANGED laterVars
    /\ UNCHANGED <<fullData, viewerId, rawData, regated>>

NextOwner == FindOwner

SpecOwner == InitOwner /\ [][NextOwner]_vars

\* The edge has nodeId at one end and an id beginning with "m-" at the
\* other.
JoinsToMember(e, nodeId) ==
    \/ e.target = nodeId /\ StartsWith(e.source, MemberPrefix)
    \/ e.source = nodeId /\ StartsWith(e.target, MemberPrefix)

\* ------------------------------------------------------------------------
\* C16.  findOwner(nodeId, edges) returns the member-prefixed endpoint of
\* the earliest edge, in list order, that has nodeId at one end and an id
\* beginning with "m-" at the other (either direction, any relation), and
\* null exactly when there is no such edge.
C16_FindOwnerEarliestMemberEdge ==
    pc = "found" =>
        LET nodeId == ownerQuery.nodeId
            edges == ownerQuery.edges
            hits == {i \in 1..Len(edges) : JoinsToMember(edges[i], nodeId)}
        IN /\ ownerFound = Null <=> hits = {}
           /\ hits # {} =>
                 LET e == edges[CHOOSE i \in hits : \A j \in hits : i <= j]
                 IN /\ StartsWith(ownerFound, MemberPrefix)
                    /\ \/ ownerFound = e.source /\ e.target = nodeId
                       \/ ownerFound = e.target /\ e.source = nodeId

\* The owner comes from the first of two qualifying edges, which names
\* the node as its source; the second names another owner.
C16_Witness ==
    /\ pc = "found"
    /\ Len(ownerQuery.edges) = 2
    /\ JoinsToMember(ownerQuery.edges[1], ownerQuery.nodeId)
    /\ JoinsToMember(ownerQuery.edges[2], ownerQuery.nodeId)
    /\ ownerQuery.edges[1].source = ownerQuery.nodeId
    /\ ownerQuery.edges[1].target # ownerQuery.edges[2].source
    /\ ownerQuery.edges[2].target = ownerQuery.nodeId
    /\ ownerFound = ownerQuery.edges[1].target
    /\ ownerFound # ownerQuery.nodeId

\* ------------------------------------------------------------------------
\* A three-generation family: g (m-a) is a parent of p (m-b), p is a parent
\* of c (m-c), and d-1 is a guarded or health_only node

IdC == <<"m", "-", "c">>

\* The two hops g -> p -> c.
Hops ==
    << [source |-> IdA, target |-> IdB, relation |-> "parent_of"],
       [source |-> IdB, target |-> IdC, relation |-> "parent_of"] >>

\* Edges around the hops: the ownership of d-1 by c (either direction) or
\* by g, the direct role edges g -> c, and parent_of c -> g.
ExtraEdges ==
    {[source |-> IdC, target |-> IdD, relation |-> "owns_device"],
     [source |-> IdD, target |-> IdC, relation |-> "owns_device"],
     [source |-> IdA, target |-> IdD, relation |-> "owns_device"],
     [source |-> IdC, target |-> IdA, relation |-> "parent_of"]}
    \cup {[source |-> IdA, target |-> IdC, relation |-> r] : r \in RoleRelations}

ExtraLists == UNION {[1..n -> ExtraEdges] : n \in 0..MaxEdges}

\* The hops placed anywhere in a list of the other edges.
ChainEdgeLists ==
    UNION {{SubSeq(x, 1, k) \o Hops \o SubSeq(x, k + 1, Len(x)) : k \in 0..Len(x)} :
              x \in ExtraLists}

ChainNodeLists ==
    {<<g, p, c, n>> :
        g \in PlainMembers(IdA, {"grandparent", "parent", "caregiver"}),
        p \in PlainMembers(IdB, {"parent"}),
        c \in PlainMembers(IdC, {"child"}),
        n \in {x \in AnyNodes(IdD) :
                  x.type # "member" /\ x.visibility \in {"guarded", "health_only"}}}

InitChain ==
    /\ \E ns \in ChainNodeLists, es \in ChainEdgeLists :
          fullData = [nodes |-> ns, edges |-> es]
    /\ viewerId = IdA
    /\ rawData = EmptyGraph
    /\ regated = EmptyGraph
    /\ pc = "input"
    /\ CallsIdle /\ OwnerIdle /\ FilterIdle /\ LaterIdle

SpecChain == InitChain /\ [][Next]_vars

\* The node is guarded or health_only and owned by c, and the viewer g is
\* related to c by the two parent_of hops only.
OnlyTwoHops(n) ==
    /\ n.visibility \in {"guarded", "health_only"}
    /\ findOwner(n.id, fullData.edges) = IdC
    /\ viewerId = IdA
    /\ HasEdge(fullData, IdA, IdB, {"parent_of"})
    /\ HasEdge(fullData, IdB, IdC, {"parent_of"})
    /\ ~HasEdge(fullData, IdA, IdC, RoleRelations)
    /\ ~HasEdge(fullData, IdC, IdA, {"parent_of"})

\* ------------------------------------------------------------------------
\* C17.  Role relations are not closed transitively: a guarded or
\* health_only node owned by c is hidden from a non-owner viewer g when
\* the only edges relating g to c are two parent_of hops g -> p and p -> c.
C17_TwoHopsHidden ==
    Gated =>
        \A n \in NodesOf(fullData) : OnlyTwoHops(n) => ~Disclosed(n)

\* C17 with the early return of the gate: the same for a node that is no
\* achievement.
C17_TwoHopsHiddenUnlessAchievement ==
    Gated =>
        \A n \in NodesOf(fullData) :
            (OnlyTwoHops(n) /\ ClassGated(n)) => ~Disclosed(n)

\* A health_only node owned by c is hidden from g, whose role is
\* grandparent and who reaches c by the two hops only.
C17_Witness ==
    /\ pc = "gated"
    /\ CurrentRole = "grandparent"
    /\ \E n \in NodesOf(fullData) :
          /\ OnlyTwoHops(n) /\ ClassGated(n)
          /\ n.visibility = "health_only"
          /\ ~Disclosed(n)

\* ------------------------------------------------------------------------
\* Repeated calls of the gate on one graph object, for the viewers g and p
\* of the three-generation family

\* A call that filters the caller's graph in place.
MutCallInPlace(v) ==
    /\ Len(seen) < MaxCalls
    /\ viewerId' = v
    /\ fullData' = applyVisibilityGate(fullData, v)
    /\ rawData' = fullData'
    /\ pc' = "gated"
    /\ seen' = Append(seen, [viewerId |-> v, input |-> fullData, output |-> rawData'])
    /\ UNCHANGED regated
    /\ UNCHANGED <<ownerQuery, ownerFound, data, vf>>
    /\ UNCHANGED laterVars

\* applyVisibilityGate(graph, v): Array.filter builds new arrays, nothing
\* is assigned to graph, its nodes or its edges, and the module has no
\* variable outside the function.  seen is the history of the calls: the
\* viewer, the graph as passed, the graph returned.
Call(v) ==
    /\ Len(seen) < MaxCalls
    /\ viewerId' = v
    /\ rawData' = applyVisibilityGate(fullData, v)
    /\ pc' = "gated"
    /\ seen' = Append(seen, [viewerId |-> v, input |-> fullData, output |-> rawData'])
    /\ UNCHANGED <<fullData, regated>>
    /\ UNCHANGED <<ownerQuery, ownerFound, data, vf>>
    /\ UNCHANGED laterVars

NextCalls == \E v \in ViewerIds : Call(v)

SpecCalls == InitChain /\ [][NextCalls]_vars

LabelSalt == <<"S", "a", "l", "t">>
LabelNuts == <<"N", "u", "t", "s">>
LabelAnn == <<"A", "n", "n">>
LabelBob == <<"B", "o", "b">>
ConditionAllergy == <<"a", "l", "l", "e", "r", "g", "y">>
ConditionAsthma == <<"a", "s", "t", "h", "m", "a">>

\* String(undefined): what RegExp.test reads when the field is absent.
NoText == <<"u", "n", "d", "e", "f", "i", "n", "e", "d">>

\* /diet|salt|sugar|gluten|lactose|allerg|intoleran/i
DietaryKeywords ==
    {<<"d", "i", "e", "t">>,
     <<"s", "a", "l", "t">>,
     <<"s", "u", "g", "a", "r">>,
     <<"g", "l", "u", "t", "e", "n">>,
     <<"l", "a", "c", "t", "o", "s", "e">>,
     <<"a", "l", "l", "e", "r", "g">>,
     <<"i", "n", "t", "o", "l", "e", "r", "a", "n">>}

\* The i flag, on the capitals used in the labels.
FoldCase(c) ==
    CASE c = "S" -> "s"
      [] c = "N" -> "n"
      [] c = "A" -> "a"
      [] c = "B" -> "b"
      [] OTHER -> c

Lower(text) == [i \in 1..Len(text) |-> FoldCase(text[i])]

Contains(text, word) ==
    \E i \in 1..(Len(text) - Len(word) + 1) :
        SubSeq(text, i, i + Len(word) - 1) = word

\* dietaryKeywords.test(text)
DietaryTest(text) == \E word \in DietaryKeywords : Contains(Lower(text), word)

IdP == <<"p", "-", "1">>
IdH == <<"h", "-", "1">>

\* A node as value_filter reads it.  Absent healthTags are the empty list
\* (both are skipped), an absent condition is NoText, other absent fields
\* are Undefined.
DataNode(id, type, label, category, sentiment, condition, severity, healthTags) ==
    [id |-> id, type |-> type, label |-> label, category |-> category,
     sentiment |-> sentiment, condition |-> condition, severity |-> severity,
     healthTags |-> healthTags]

MemberNodes(id, labels, tagLists) ==
    {DataNode(id, "member", l, Undefined, Undefined, NoText, Undefined, tags) :
        l \in labels, tags \in tagLists}

PreferenceNodes(id) ==
    {DataNode(id, "preference", l, c, s, NoText, Undefined, << >>) :
        l \in {LabelSalt, LabelNuts}, c \in {"food", "activity"},
        s \in {"avoids", "likes"}}

HealthNodes(id) ==
    {DataNode(id, "health", l, Undefined, Undefined, c, v, << >>) :
        l \in {LabelSalt, LabelNuts}, c \in {ConditionAllergy, ConditionAsthma},
        v \in {Undefined, "critical"}}

\* m-a, m-b, p-1, h-1 in this order, each present or absent.
DataNodeLists ==
    {a \o b \o p \o h :
        a \in OptSeq(MemberNodes(IdA, {LabelAnn},
                                 {<< >>, <<LabelSalt>>, <<LabelNuts, LabelSalt>>})),
        b \in OptSeq(MemberNodes(IdB, {LabelAnn, LabelBob}, {<< >>, <<LabelSalt>>})),
        p \in OptSeq(PreferenceNodes(IdP)),
        h \in OptSeq(HealthNodes(IdH))}

DataIds == {IdA, IdB, IdP, IdH}

\* Edges of the two relations value_filter reads, between any two ids.
DataEdgeSet ==
    {e \in [source : DataIds, target : DataIds,
            relation : {"has_preference", "has_health_condition"}] :
        e.source # e.target}

DataEdgeLists == UNION {[1..n -> DataEdgeSet] : n \in 0..MaxEdges}

\* nodes.find((n) => n.id === id): the position of the first match, 0
\* when there is none.
FindIndex(nodes, id) ==
    LET hits == {i \in 1..Len(nodes) : nodes[i].id = id}
    IN IF hits = {} THEN 0 ELSE CHOOSE i \in hits : \A j \in hits : i <= j

Restriction(memberId, memberLabel, source, label, sentiment, severity) ==
    [memberId |-> memberId, memberLabel |-> memberLabel, source |-> source,
     label |-> label, sentiment |-> sentiment, severity |-> severity]

\* Lines 147-163: what one edge adds in the preference loop.
PreferenceOf(nodes, edge) ==
    LET memberId == IF StartsWith(edge.source, MemberPrefix)
                    THEN edge.source ELSE edge.target
        prefId == IF StartsWith(edge.source, MemberPrefix)
                  THEN edge.target ELSE edge.source
        member == FindIndex(nodes, memberId)
        pref == FindIndex(nodes, prefId)
    IN IF /\ edge.relation = "has_preference"
          /\ member # 0
          /\ pref # 0
          /\ nodes[pref].category = "food"
       THEN << Restriction(nodes[member].id, nodes[member].label, "preference",
                           nodes[pref].label, nodes[pref].sentiment, Undefined) >>
       ELSE << >>

\* Lines 165-184: what one edge adds in the health loop.
HealthOf(nodes, edge) ==
    LET memberId == IF StartsWith(edge.source, MemberPrefix)
                    THEN edge.source ELSE edge.target
        healthId == IF StartsWith(edge.source, MemberPrefix)
                    THEN edge.target ELSE edge.source
        member == FindIndex(nodes, memberId)
        health == FindIndex(nodes, healthId)
    IN IF /\ edge.relation = "has_health_condition"
          /\ member # 0
          /\ health # 0
          /\ \/ DietaryTest(nodes[health].label)
             \/ DietaryTest(nodes[health].condition)
       THEN << Restriction(nodes[member].id, nodes[member].label, "health",
                           nodes[health].label, Undefined, nodes[health].severity) >>
       ELSE << >>

RECURSIVE PreferenceLoop(_, _, _)
PreferenceLoop(nodes, edges, i) ==
    IF i > Len(edges) THEN << >>
    ELSE PreferenceOf(nodes, edges[i]) \o PreferenceLoop(nodes, edges, i + 1)

RECURSIVE HealthLoop(_, _, _)
HealthLoop(nodes, edges, i) ==
    IF i > Len(edges) THEN << >>
    ELSE HealthOf(nodes, edges[i]) \o HealthLoop(nodes, edges, i + 1)

\* Lines 192-194: restrictions.some((r) => r.memberId === member.id &&
\* r.label === tag).
AlreadyHas(restrictions, member, tag) ==
    \E i \in 1..Len(restrictions) :
        /\ restrictions[i].memberId = member.id
        /\ restrictions[i].label = tag

\* Lines 190-203: the tags of one member, from tag j on.
RECURSIVE TagLoop(_, _, _)
TagLoop(restrictions, member, j) ==
    IF j > Len(member.healthTags) THEN restrictions
    ELSE IF AlreadyHas(restrictions, member, member.healthTags[j])
         THEN TagLoop(restrictions, member, j + 1)
    ELSE TagLoop(Append(restrictions,
                        Restriction(member.id, member.label, "health",
                                    member.healthTags[j], Undefined, Undefined)),
                 member, j + 1)

\* Lines 187-205: the nodes of type member, from node i on.
RECURSIVE MemberLoop(_, _, _)
MemberLoop(restrictions, nodes, i) ==
    IF i > Len(nodes) THEN restrictions
    ELSE IF nodes[i].type = "member"
         THEN MemberLoop(TagLoop(restrictions, nodes[i], 1), nodes, i + 1)
    ELSE MemberLoop(restrictions, nodes, i + 1)

\* Lines 222-227: the keys of byMember in insertion order, the member
\* labels by first appearance.
RECURSIVE ByMemberKeys(_, _, _)
ByMemberKeys(restrictions, i, keys) ==
    IF i > Len(restrictions) THEN keys
    ELSE IF \E k \in 1..Len(keys) : keys[k] = restrictions[i].memberLabel
         THEN ByMemberKeys(restrictions, i + 1, keys)
    ELSE ByMemberKeys(restrictions, i + 1, Append(keys, restrictions[i].memberLabel))

\* Lines 230-235: "<label> (health)" or "<sentiment ?? note>: <label>".
Part(r) ==
    IF r.source = "health"
    THEN [form |-> "health", label |-> r.label]
    ELSE [form |-> Nullish(r.sentiment, "note"), label |-> r.label]

PartsOf(restrictions) == [j \in 1..Len(restrictions) |-> Part(restrictions[j])]

\* Lines 229-237: the line of one key of byMember.
LineOf(restrictions, memberLabel) ==
    [memberLabel |-> memberLabel,
     parts |-> PartsOf(SelectSeq(restrictions,
                                 LAMBDA r : r.memberLabel = memberLabel))]

\* The instruction as its heading and its lines.
buildFoodInstruction(restrictions) ==
    IF Len(restrictions) = 0
    THEN [text |-> "No dietary restrictions detected. Order freely!",
          lines |-> << >>]
    ELSE LET keys == ByMemberKeys(restrictions, 1, << >>)
         IN [text |-> "Dietary constraints for this order:",
             lines |-> [k \in 1..Len(keys) |-> LineOf(restrictions, keys[k])]]

value_filter(nodes, edges) ==
    LET restrictions ==
            MemberLoop(PreferenceLoop(nodes, edges, 1) \o HealthLoop(nodes, edges, 1),
                       nodes, 1)
    IN [restrictions |-> restrictions,
        instruction |-> buildFoodInstruction(restrictions)]

InitValue ==
    /\ \E ns \in DataNodeLists, es \in DataEdgeLists :
          data = [nodes |-> ns, edges |-> es]
    /\ vf = NoResult
    /\ pc = "data"
    /\ GateIdle /\ CallsIdle /\ OwnerIdle /\ LaterIdle

ValueFilter ==
    /\ pc = "data"
    /\ vf' = value_filter(data.nodes, data.edges)
    /\ pc' = "filtered"
    /\ UNCHANGED <<data, seen, ownerQuery, ownerFound>>
    /\ UNCHANGED laterVars
    /\ UNCHANGED <<fullData, viewerId, rawData, regated>>

NextValue == ValueFilter

SpecValue == InitValue /\ [][NextValue]_vars

\* ------------------------------------------------------------------------
\* Vocabulary for value_filter

Filtered == pc = "filtered"

DataNodes == {data.nodes[i] : i \in 1..Len(data.nodes)}

Restrictions == {vf.restrictions[i] : i \in 1..Len(vf.restrictions)}

TagsOf(member) == {member.healthTags[j] : j \in 1..Len(member.healthTags)}

\* The edge joins an existing node of type member and an existing node of
\* the other type.
Joins(e, m, n, type) ==
    /\ m \in DataNodes /\ m.type = "member"
    /\ n \in DataNodes /\ n.type = type
    /\ {e.source, e.target} = {m.id, n.id}

\* What the edge yields by its description: a preference restriction from
\* a has_preference edge joining a member and a food preference, a health
\* restriction from a has_health_condition edge joining a member and a
\* dietary health node, nothing otherwise.
DescribedOf(e) ==
    IF /\ e.relation = "has_preference"
       /\ \E m, n \in DataNodes : Joins(e, m, n, "preference") /\ n.category = "food"
    THEN LET m == CHOOSE m \in DataNodes :
                      \E n \in DataNodes : Joins(e, m, n, "preference")
             n == CHOOSE n \in DataNodes : Joins(e, m, n, "preference")
         IN << Restriction(m.id, m.label, "preference", n.label, n.sentiment,
                           Undefined) >>
    ELSE IF /\ e.relation = "has_health_condition"
            /\ \E m, n \in DataNodes :
                  /\ Joins(e, m, n, "health")
                  /\ DietaryTest(n.label) \/ DietaryTest(n.condition)
    THEN LET m == CHOOSE m \in DataNodes :
                      \E n \in DataNodes : Joins(e, m, n, "health")
             n == CHOOSE n \in DataNodes : Joins(e, m, n, "health")
         IN << Restriction(m.id, m.label, "health", n.label, Undefined,
                           n.severity) >>
    ELSE << >>

RECURSIVE DescribedFrom(_, _, _)
DescribedFrom(edges, relation, i) ==
    IF i > Len(edges) THEN << >>
    ELSE (IF edges[i].relation = relation THEN DescribedOf(edges[i]) ELSE << >>)
         \o DescribedFrom(edges, relation, i + 1)

\* The restriction is one a health tag yields.
FromTag(r) ==
    /\ r.source = "health" /\ r.sentiment = Undefined /\ r.severity = Undefined
    /\ \E m \in DataNodes :
          /\ m.type = "member" /\ m.id = r.memberId /\ m.label = r.memberLabel
          /\ r.label \in TagsOf(m)

\* The restrictions are the described ones of the edges, preference edges
\* first, followed by restrictions from health tags only.
EdgeDerivedAsDescribed ==
    LET described == DescribedFrom(data.edges, "has_preference", 1)
                        \o DescribedFrom(data.edges, "has_health_condition", 1)
    IN /\ Len(vf.restrictions) >= Len(described)
       /\ SubSeq(vf.restrictions, 1, Len(described)) = described
       /\ \A i \in (Len(described) + 1)..Len(vf.restrictions) :
             FromTag(vf.restrictions[i])

\* Every edge of the two relations whose ends are both nodes joins a
\* member to a preference node (has_preference) or to a health node
\* (has_health_condition).
TypedEdges ==
    \A i \in 1..Len(data.edges) :
        LET e == data.edges[i]
        IN (FindIndex(data.nodes, e.source) # 0 /\ FindIndex(data.nodes, e.target) # 0)
              => \E m, n \in DataNodes :
                    Joins(e, m, n, IF e.relation = "has_preference"
                                   THEN "preference" ELSE "health")

\* ------------------------------------------------------------------------
\* C18.  value_filter collects edge-derived restrictions exactly: one
\* preference restriction (label and sentiment of the preference) for each
\* has_preference edge joining an existing member node and an existing
\* preference node of category food, one health restriction for each
\* has_health_condition edge joining an existing member node and an
\* existing health node whose label or condition matches the dietary
\* pattern, and none for any other edge.
C18_EdgeRestrictionsExact == Filtered => EdgeDerivedAsDescribed

\* The same when every edge joins nodes of the types of its relation.
C18_ExactOnTypedEdges == (Filtered /\ TypedEdges) => EdgeDerivedAsDescribed

\* ------------------------------------------------------------------------
\* C19.  After value_filter every tag t in the healthTags of every member
\* m appears as a health-source restriction with memberId m and label t.
C19_EveryTagIsHealthRestriction ==
    Filtered =>
        \A m \in DataNodes :
            m.type = "member" =>
                \A tag \in TagsOf(m) :
                    \E r \in Restrictions :
                        r.source = "health" /\ r.memberId = m.id /\ r.label = tag

\* The same unless a food preference of the member carries the tag's
\* label, which the duplicate test takes for the tag.
C19_EveryTagUnlessPreferenceOfSameLabel ==
    Filtered =>
        \A m \in DataNodes :
            m.type = "member" =>
                \A tag \in TagsOf(m) :
                    \E r \in Restrictions : r.memberId = m.id /\ r.label = tag

\* ------------------------------------------------------------------------
\* C20.  Every restriction returned by value_filter is attributed to the
\* right member: its memberId is the id of a node of type member, that
\* member is an endpoint of an edge of the restriction's kind or the
\* holder of the tag, and memberLabel is that member's label.
C20_AttributedToMember ==
    Filtered =>
        \A r \in Restrictions :
            \E m \in DataNodes :
                /\ m.type = "member"
                /\ m.id = r.memberId
                /\ m.label = r.memberLabel
                /\ \/ r.label \in TagsOf(m)
                   \/ \E e \in {data.edges[i] : i \in 1..Len(data.edges)} :
                         /\ m.id \in {e.source, e.target}
                         /\ e.relation = IF r.source = "preference"
                                         THEN "has_preference"
                                         ELSE "has_health_condition"

\* The same when every edge joins nodes of the types of its relation.
C20_AttributedOnTypedEdges ==
    (Filtered /\ TypedEdges) =>
        \A r \in Restrictions :
            \E m \in DataNodes :
                m.type = "member" /\ m.id = r.memberId /\ m.label = r.memberLabel

\* ------------------------------------------------------------------------
\* C21.  The instruction groups restrictions by member: with at least one
\* restriction it has exactly one line per distinct memberId that has
\* restrictions, each line listing only that member's restrictions; with
\* none it is the fixed "No dietary restrictions detected" text.
C21_OneLinePerMember ==
    Filtered =>
        LET lines == vf.instruction.lines
            ids == {r.memberId : r \in Restrictions}
        IN IF Restrictions = {}
           THEN /\ vf.instruction.text = "No dietary restrictions detected. Order freely!"
                /\ lines = << >>
           ELSE /\ Len(lines) = Cardinality(ids)
                /\ \A k \in 1..Len(lines) :
                      \E id \in ids :
                          lines[k].parts =
                              PartsOf(SelectSeq(vf.restrictions,
                                                LAMBDA r : r.memberId = id))

\* The same when no two members that have restrictions share a label.
C21_OneLinePerMemberOfDistinctLabels ==
    ( /\ Filtered
      /\ \A r, q \in Restrictions : r.memberLabel = q.memberLabel => r.memberId = q.memberId )
    => LET lines == vf.instruction.lines
           ids == {r.memberId : r \in Restrictions}
       IN IF Restrictions = {}
          THEN /\ vf.instruction.text = "No dietary restrictions detected. Order freely!"
               /\ lines = << >>
          ELSE /\ Len(lines) = Cardinality(ids)
               /\ \A k \in 1..Len(lines) :
                     \E id \in ids :
                         lines[k].parts =
                             PartsOf(SelectSeq(vf.restrictions,
                                               LAMBDA r : r.memberId = id))

\* ------------------------------------------------------------------------
\* src/src/lib/livo/filters.ts: scholar_filter

\* Messages are character sequences; the patterns are computed on them.
UpperLetters == <<"A", "B", "C", "D", "E", "F", "G", "H", "I", "J", "K", "L", "M", "N", "O", "P", "Q", "R", "S", "T", "U", "V", "W", "X", "Y", "Z">>
LowerLetters == <<"a", "b", "c", "d", "e", "f", "g", "h", "i", "j", "k", "l", "m", "n", "o", "p", "q", "r", "s", "t", "u", "v", "w", "x", "y", "z">>
Digits == {"0", "1", "2", "3", "4", "5", "6", "7", "8", "9"}

\* The i flag.
ToLowerChar(c) ==
    IF \E i \in 1..Len(UpperLetters) : UpperLetters[i] = c
    THEN LowerLetters[CHOOSE i \in 1..Len(UpperLetters) : UpperLetters[i] = c]
    ELSE c

ToLower(text) == [i \in 1..Len(text) |-> ToLowerChar(text[i])]

\* \w, \s and . of the regular expressions.
WordChars == {LowerLetters[i] : i \in 1..Len(LowerLetters)}
                \cup {UpperLetters[i] : i \in 1..Len(UpperLetters)}
                \cup Digits \cup {"_"}
SpaceChars == {" ", "\t", "\n", "\r"}
DotChar(c) == c \notin {"\n", "\r"}

StartsAt(text, i, word) ==
    /\ i >= 1
    /\ i + Len(word) - 1 <= Len(text)
    /\ SubSeq(text, i, i + Len(word) - 1) = word

\* \b between positions i - 1 and i.
BoundaryAt(text, i) ==
    LET IsWord(k) == k \in 1..Len(text) /\ text[k] \in WordChars
    IN IsWord(i - 1) # IsWord(i)

\* \bword\b at position i.
WordAt(text, i, word) ==
    /\ StartsAt(text, i, word)
    /\ BoundaryAt(text, i)
    /\ BoundaryAt(text, i + Len(word))

HasWord(text, word) == \E i \in 1..Len(text) : WordAt(text, i, word)

\* \bfirst\b.*\bsecond\b
WordThenWord(text, first, second) ==
    \E i, j \in 1..Len(text) :
        /\ WordAt(text, i, first)
        /\ WordAt(text, j, second)
        /\ j >= i + Len(first)
        /\ \A k \in (i + Len(first))..(j - 1) : DotChar(text[k])

\* prefix.{3,}
ThenThree(text, prefix) ==
    \E i \in 1..Len(text) :
        /\ StartsAt(text, i, prefix)
        /\ i + Len(prefix) + 2 <= Len(text)
        /\ \A k \in (i + Len(prefix))..(i + Len(prefix) + 2) : DotChar(text[k])

\* \d+\s*[\+\-\*\/×÷]\s*\d+, with \b before it when bounded.
Arithmetic(text, bounded) ==
    \E i, o, j \in 1..Len(text) :
        /\ i < o /\ o < j
        /\ text[i] \in Digits
        /\ bounded => BoundaryAt(text, i)
        /\ text[o] \in {"+", "-", "*", "/", "×", "÷"}
        /\ text[j] \in Digits
        /\ \E d \in i..(o - 1) :
              /\ \A k \in i..d : text[k] \in Digits
              /\ \A k \in (d + 1)..(o - 1) : text[k] \in SpaceChars
        /\ \A k \in (o + 1)..(j - 1) : text[k] \in SpaceChars

\* One of the phrases "head a b", a and b from the alternatives.
HasPhrase(text, head, firsts, seconds) ==
    \E a \in firsts, b \in seconds : Contains(text, head \o a \o b)

\* Lines 38-62: HOMEWORK_PATTERNS.some((p) => p.test(message))
IsHomework(message) ==
    LET text == ToLower(message)
    IN \/ Contains(text, <<"h", "o", "m", "e", "w", "o", "r", "k">>)
       \/ \E w \in {<<"m", "a", "t", "h">>, <<"s", "c", "i", "e", "n", "c", "e">>, <<"h", "i", "s", "t", "o", "r", "y">>, <<"e", "n", "g", "l", "i", "s", "h">>} : HasWord(text, w)
       \/ ThenThree(text, <<"w", "h", "a", "t", " ", "i", "s", " ">>)
       \/ HasPhrase(text, <<"h", "o", "w", " ", "d", "o", " ">>, {<<"i", " ">>, <<"y", "o", "u", " ">>, <<"w", "e", " ">>},
                    {<<"s", "o", "l", "v", "e">>, <<"c", "a", "l", "c", "u", "l", "a", "t", "e">>, <<"f", "i", "n", "d">>, <<"a", "n", "s", "w", "e", "r">>})
       \/ HasPhrase(text, <<"h", "e", "l", "p", " ", "m", "e", " ">>, {<<"w", "i", "t", "h">>, <<"d", "o">>, <<"s", "o", "l", "v", "e">>, <<"f", "i", "n", "i", "s", "h">>, <<"a", "n", "s", "w", "e", "r">>}, {<< >>})
       \/ HasPhrase(text, <<"c", "a", "n", " ", "y", "o", "u", " ">>, {<<"h", "e", "l", "p">>, <<"e", "x", "p", "l", "a", "i", "n">>, <<"t", "e", "l", "l", " ", "m", "e">>, <<"a", "n", "s", "w", "e", "r">>, <<"s", "o", "l", "v", "e">>}, {<< >>})
       \/ HasPhrase(text, <<"w", "h", "a", "t">>, {<<"'", "s">>, <<" ", "i", "s">>}, {<<" ", "t", "h", "e", " ", "a", "n", "s", "w", "e", "r">>})
       \/ HasPhrase(text, <<"s", "o", "l", "v", "e", " ">>, {<<"t", "h", "i", "s">>, <<"t", "h", "e">>}, {<< >>})
       \/ HasPhrase(text, <<"e", "x", "p", "l", "a", "i", "n", " ">>, {<<"t", "h", "i", "s">>, <<"h", "o", "w">>, <<"w", "h", "y">>, <<"w", "h", "a", "t">>}, {<< >>})
       \/ WordThenWord(text, <<"t", "e", "s", "t">>, <<"t", "o", "m", "o", "r", "r", "o", "w">>)
       \/ WordThenWord(text, <<"t", "o", "m", "o", "r", "r", "o", "w">>, <<"t", "e", "s", "t">>)
       \/ \E w \in {<<"e", "x", "a", "m">>, <<"q", "u", "i", "z">>, <<"e", "s", "s", "a", "y">>} : HasWord(text, w)
       \/ WordThenWord(text, <<"r", "e", "p", "o", "r", "t">>, <<"d", "u", "e">>)
       \/ WordThenWord(text, <<"d", "u", "e">>, <<"r", "e", "p", "o", "r", "t">>)
       \/ WordThenWord(text, <<"p", "r", "o", "j", "e", "c", "t">>, <<"s", "c", "h", "o", "o", "l">>)
       \/ WordThenWord(text, <<"s", "c", "h", "o", "o", "l">>, <<"p", "r", "o", "j", "e", "c", "t">>)
       \/ HasWord(text, <<"s", "t", "u", "d", "y">>)
       \/ Arithmetic(text, TRUE)

\* A string built from a literal, the child's name and a literal.
Text(head, name, tail) == [head |-> head, name |-> name, tail |-> tail]

EmptyText == Text("", << >>, "")

\* Lines 98-127: the first matching topic decides the response.
buildScaffoldResponse(message, childName, age) ==
    LET text == ToLower(message)
    IN IF \/ HasWord(text, <<"m", "a", "t", "h">>)
          \/ Arithmetic(text, FALSE)
          \/ \E w \in {<<"c", "a", "l", "c", "u", "l", "a", "t", "e">>, <<"e", "q", "u", "a", "t", "i", "o", "n">>} : Contains(text, w)
       THEN Text("Great question, ", childName, "! Before I help, let me ask you")
       ELSE IF \/ HasWord(text, <<"s", "c", "i", "e", "n", "c", "e">>)
               \/ \E w \in {<<"e", "x", "p", "e", "r", "i", "m", "e", "n", "t">>, <<"m", "o", "l", "e", "c", "u", "l", "e">>, <<"a", "t", "o", "m">>, <<"c", "e", "l", "l">>, <<"p", "l", "a", "n", "t">>, <<"a", "n", "i", "m", "a", "l">>, <<"p", "h", "y", "s", "i", "c", "s">>, <<"c", "h", "e", "m", "i", "s", "t", "r", "y">>, <<"b", "i", "o", "l", "o", "g", "y">>} :
                     Contains(text, w)
       THEN Text("Interesting topic, ", childName, "! What have you observed")
       ELSE IF \E w \in {<<"e", "s", "s", "a", "y">>, <<"r", "e", "p", "o", "r", "t">>, <<"w", "r", "i", "t", "i", "n", "g">>, <<"w", "r", "i", "t", "e">>} : HasWord(text, w)
       THEN Text("Let's work on this together, ", childName, "! First")
       ELSE IF \E w \in {<<"h", "i", "s", "t", "o", "r", "y">>, <<"w", "a", "r">>, <<"k", "i", "n", "g">>, <<"d", "y", "n", "a", "s", "t", "y">>, <<"e", "m", "p", "i", "r", "e">>} : HasWord(text, w)
       THEN Text("Good question, ", childName, "! What do you already know")
       ELSE Text("I can see you're working hard, ", childName, "! Instead of giving")

\* The inactive result of lines 68-73.
Inactive ==
    [active |-> FALSE, scaffoldResponse |-> EmptyText, childName |-> << >>,
     childAge |-> 0]

\* scholar_filter without the role test.
MutScholarAnyRole(message, viewerNode) ==
    IF viewerNode = << >> THEN Inactive
    ELSE IF viewerNode[1].type # "member" THEN Inactive
    ELSE IF ~IsHomework(message) THEN Inactive
    ELSE LET childName == viewerNode[1].label
             childAge == IF viewerNode[1].age = << >> THEN 10 ELSE viewerNode[1].age[1]
         IN [active |-> TRUE,
             scaffoldResponse |-> buildScaffoldResponse(message, childName, childAge),
             childName |-> childName,
             childAge |-> childAge]

\* viewerNode is << >> when undefined and <<node>> otherwise; a node's age
\* is << >> when absent.
scholar_filter(message, viewerNode) ==
    IF viewerNode = << >> THEN Inactive
    ELSE IF viewerNode[1].type # "member" THEN Inactive
    ELSE IF viewerNode[1].role # "child" THEN Inactive
    ELSE IF ~IsHomework(message) THEN Inactive
    ELSE LET childName == viewerNode[1].label
             childAge == IF viewerNode[1].age = << >> THEN 10 ELSE viewerNode[1].age[1]
         IN [active |-> TRUE,
             scaffoldResponse |-> buildScaffoldResponse(message, childName, childAge),
             childName |-> childName,
             childAge |-> childAge]

Messages ==
    {<< >>,
     <<"h", "i">>,
     <<"M", "a", "t", "h">>,
     <<"a", "f", "t", "e", "r", "m", "a", "t", "h">>,
     <<"h", "o", "m", "e", "w", "o", "r", "k", "s">>,
     <<"w", "h", "a", "t", " ", "i", "s", " ", "x">>,
     <<"w", "h", "a", "t", " ", "i", "s", " ", "l", "i", "f", "e">>,
     <<"2", " ", "+", " ", "2">>,
     <<"a", "2", "+", "2">>,
     <<"t", "e", "s", "t", " ", "t", "o", "m", "o", "r", "r", "o", "w">>,
     <<"t", "o", "m", "o", "r", "r", "o", "w", " ", "t", "e", "s", "t">>,
     <<"c", "o", "n", "t", "e", "s", "t", " ", "t", "o", "m", "o", "r", "r", "o", "w">>,
     <<"E", "x", "p", "l", "a", "i", "n", " ", "w", "h", "y">>,
     <<"m", "y", " ", "p", "e", "t">>,
     <<"p", "l", "a", "n", "t", " ", "c", "e", "l", "l">>,
     <<"t", "h", "e", " ", "k", "i", "n", "g">>,
     <<"C", "a", "n", " ", "y", "o", "u", " ", "h", "e", "l", "p">>}

\* The viewer's node: undefined, a member of any role, or a device (with
\* and without a stray role field).
ViewerNodes ==
    {<< >>}
    \cup {<<[type |-> type, role |-> role, label |-> label, age |-> age]>> :
             type \in {"member", "device"},
             role \in {"child", "parent", Undefined},
             label \in {LabelAnn, << >>},
             age \in {<< >>, <<0>>, <<8>>}}

InitScholar ==
    /\ \E m \in Messages, n \in ViewerNodes :
          scholar = [message |-> m, viewerNode |-> n, result |-> Inactive]
    /\ pc = "message"
    /\ data = EmptyGraph
    /\ vf = NoResult
    /\ VariantIdle /\ AlertsIdle /\ PageIdle
    /\ GateIdle /\ CallsIdle /\ OwnerIdle

ScholarFilter ==
    /\ pc = "message"
    /\ scholar' = [scholar EXCEPT
                      !.result = scholar_filter(scholar.message, scholar.viewerNode)]
    /\ pc' = "answered"
    /\ UNCHANGED <<data, vf, seen, ownerQuery, ownerFound, variant, alerts>>
    /\ UNCHANGED pageVars
    /\ UNCHANGED <<fullData, viewerId, rawData, regated>>

NextScholar == ScholarFilter

SpecScholar == InitScholar /\ [][NextScholar]_vars

\* ------------------------------------------------------------------------
\* C22.  scholar_filter returns active = true if and only if viewerNode is
\* defined, has type member and role child, and the message matches at
\* least one homework pattern; otherwise the result is inactive with an
\* empty scaffoldResponse, an empty childName and childAge 0; when active
\* the scaffoldResponse is not empty.
C22_ActiveIffChildAndHomework ==
    pc = "answered" =>
        LET r == scholar.result
            n == scholar.viewerNode
            child == n # << >> /\ n[1].type = "member" /\ n[1].role = "child"
        IN /\ r.active <=> (child /\ IsHomework(scholar.message))
           /\ ~r.active =>
                 /\ r.scaffoldResponse = EmptyText
                 /\ r.childName = << >>
                 /\ r.childAge = 0
           /\ r.active => r.scaffoldResponse # EmptyText

\* A child of absent age asks about a test tomorrow and gets the generic
\* response.
C22_Witness ==
    /\ pc = "answered"
    /\ scholar.result.active
    /\ scholar.viewerNode[1].age = << >>
    /\ scholar.result.childAge = 10
    /\ scholar.message = <<"t", "e", "s", "t", " ", "t", "o", "m", "o", "r", "r", "o", "w">>
    /\ scholar.result.scaffoldResponse.head = "I can see you're working hard, "

\* ------------------------------------------------------------------------
\* C23.  A health_only node is not visible to children or siblings: for
\* every viewer whose member role is child or sibling and who is not the
\* node's resolved owner, a health_only node that is no achievement (and no
\* member) is hidden.
C23_HealthOnlyHiddenFromChildren ==
    Gated =>
        \A n \in NodesOf(fullData) :
            ( /\ CurrentRole \in {"child", "sibling"}
              /\ ClassGated(n) /\ n.visibility = "health_only"
              /\ findOwner(n.id, fullData.edges) # viewerId )
            => ~Disclosed(n)

\* The same for a child with no parent_of, grandparent_of or caregiver_of
\* edge to the owner.
C23_HiddenFromChildrenWithoutRoleEdge ==
    Gated =>
        \A n \in NodesOf(fullData) :
            LET o == findOwner(n.id, fullData.edges)
            IN ( /\ CurrentRole \in {"child", "sibling"}
                 /\ ClassGated(n) /\ n.visibility = "health_only"
                 /\ o # viewerId
                 /\ ~HasEdge(fullData, viewerId, o, RoleRelations) )
               => ~Disclosed(n)

\* ------------------------------------------------------------------------
\* Two graphs gated for one viewer: fullData and a variant of it

Reverse(s) == [i \in 1..Len(s) |-> s[Len(s) + 1 - i]]

\* The dangling edges removed: only edges whose ends are both node ids.
Pruned(graph) ==
    [nodes |-> graph.nodes,
     edges |-> SelectSeq(graph.edges,
                         LAMBDA e : /\ e.source \in IdsOf(graph.nodes)
                                    /\ e.target \in IdsOf(graph.nodes))]

\* The variant has the same nodes and the same edges in the opposite order.
InitOrder ==
    /\ \E ns \in NodeLists, es \in EdgeLists :
          /\ fullData = [nodes |-> ns, edges |-> es]
          /\ variant = [input |-> [nodes |-> ns, edges |-> Reverse(es)],
                        output |-> EmptyGraph]
    /\ viewerId \in ViewerIds
    /\ rawData = EmptyGraph
    /\ regated = EmptyGraph
    /\ pc = "input"
    /\ CallsIdle /\ OwnerIdle /\ FilterIdle /\ ScholarIdle /\ AlertsIdle
    /\ PageIdle

\* The variant is the graph without its dangling edges.
InitPruned ==
    /\ \E ns \in NodeLists, es \in EdgeLists :
          /\ fullData = [nodes |-> ns, edges |-> es]
          /\ variant = [input |-> Pruned([nodes |-> ns, edges |-> es]),
                        output |-> EmptyGraph]
    /\ viewerId \in ViewerIds
    /\ rawData = EmptyGraph
    /\ regated = EmptyGraph
    /\ pc = "input"
    /\ CallsIdle /\ OwnerIdle /\ FilterIdle /\ ScholarIdle /\ AlertsIdle
    /\ PageIdle

GateVariant ==
    /\ pc = "input"
    /\ rawData' = applyVisibilityGate(fullData, viewerId)
    /\ variant' = [variant EXCEPT
                      !.output = applyVisibilityGate(variant.input, viewerId)]
    /\ pc' = "gated"
    /\ UNCHANGED <<fullData, viewerId, regated>>
    /\ UNCHANGED <<seen, ownerQuery, ownerFound, data, vf, scholar, alerts>>
    /\ UNCHANGED pageVars

NextVariant == GateVariant

SpecOrder == InitOrder /\ [][NextVariant]_vars

SpecPruned == InitPruned /\ [][NextVariant]_vars

\* The positions of the edges that join the node to a member-prefixed id,
\* and the member end of such an edge.
OwnerEdges(n) ==
    {i \in 1..Len(fullData.edges) : JoinsToMember(fullData.edges[i], n.id)}

MemberEnd(n, i) ==
    IF fullData.edges[i].source = n.id
    THEN fullData.edges[i].target
    ELSE fullData.edges[i].source

\* ------------------------------------------------------------------------
\* C24.  Owner resolution is order-dependent: of two graphs with the same
\* nodes and the same edges in a different order, where a private node
\* (not high risk) is joined to the viewer by its first ownership edge and
\* to another member by its last, the gate returns the node for the first
\* order and hides it for the opposite order.
C24_EdgeOrderDecidesOwner ==
    Gated =>
        \A n \in NodesOf(fullData) :
            LET hits == OwnerEdges(n)
                first == CHOOSE i \in hits : \A j \in hits : i <= j
                last == CHOOSE i \in hits : \A j \in hits : j <= i
            IN ( /\ ClassGated(n)
                 /\ n.visibility = "private" /\ n.riskLevel # "high"
                 /\ hits # {}
                 /\ MemberEnd(n, first) = viewerId
                 /\ MemberEnd(n, last) # viewerId
                 /\ ~(CurrentRole = "caregiver" /\ isFinancialDoc(n)) )
               => /\ n.id \in IdsOf(rawData.nodes)
                  /\ n.id \notin IdsOf(variant.output.nodes)

\* Two graphs with the same nodes and the same set of edges, in which a
\* node resolves to two different owners and the gate returns two
\* different node sets for the same viewer.
C24_Witness ==
    /\ pc = "gated"
    /\ variant.input.nodes = fullData.nodes
    /\ EdgesOf(variant.input) = EdgesOf(fullData)
    /\ \E n \in NodesOf(fullData) :
          LET o1 == findOwner(n.id, fullData.edges)
              o2 == findOwner(n.id, variant.input.edges)
          IN /\ o1 = viewerId /\ o2 # Null /\ o2 # viewerId
             /\ ClassGated(n) /\ n.visibility = "private"
             /\ n.id \in IdsOf(rawData.nodes)
             /\ n.id \notin IdsOf(variant.output.nodes)

\* ------------------------------------------------------------------------
\* C25.  Dangling edges never influence disclosure: the ids of the nodes
\* returned for a graph equal the ids returned for the graph with every
\* edge removed whose source or target is not the id of a node.
C25_DanglingEdgesNeverInfluence ==
    Gated => IdsOf(rawData.nodes) = IdsOf(variant.output.nodes)

\* ------------------------------------------------------------------------
\* src/src/lib/livo/high-risk-handler.ts and src/src/lib/livo/mediator.ts

\* Events scanned by a detector.
MaxEvents == 2

DescApp == <<"N", "e", "w", " ", "a", "p", "p", " ", "i", "n", "s", "t", "a", "l", "l", "e", "d">>
DescGold == <<"G", "o", "l", "d", " ", "f", "u", "n", "d">>
DescNone == <<"i", "n", "s", "t", "a", "l", "l", " ", "a", "p", "p">>

\* Every character of text from position i to position j matches ".".
Dots(text, i, j) == \A k \in i..j : DotChar(text[k])

\* first.*second
SubThenSub(text, first, second) ==
    \E i \in 1..Len(text) :
        /\ StartsAt(text, i, first)
        /\ \E j \in (i + Len(first))..Len(text) :
              /\ StartsAt(text, j, second)
              /\ Dots(text, i + Len(first), j - 1)

\* first.*second.*third
SubThenSubThenSub(text, first, second, third) ==
    \E i \in 1..Len(text) :
        /\ StartsAt(text, i, first)
        /\ \E j \in (i + Len(first))..Len(text) :
              /\ StartsAt(text, j, second)
              /\ Dots(text, i + Len(first), j - 1)
              /\ \E k \in (j + Len(second))..Len(text) :
                    /\ StartsAt(text, k, third)
                    /\ Dots(text, j + Len(second), k - 1)

\* HIGH_RISK_PATTERNS.some((p) => p.test(event.description))
IsAppRisk(description) ==
    LET text == ToLower(description)
    IN \/ \E p \in {<<<<"s", "u", "s", "p", "i", "c", "i", "o", "u", "s">>, <<"a", "p", "p">>>>, <<<<"a", "p", "p">>, <<"i", "n", "s", "t", "a", "l", "l">>>>, <<<<"a", "p", "p">>, <<"d", "e", "t", "e", "c", "t">>>>, <<<<"u", "n", "k", "n", "o", "w", "n">>, <<"a", "p", "p">>>>, <<<<"n", "e", "w">>, <<"a", "p", "p">>>>, <<<<"i", "n", "s", "t", "a", "l", "l">>, <<"d", "e", "t", "e", "c", "t">>>>} :
             SubThenSub(text, p[1], p[2])
       \/ \E w \in {<<"m", "a", "l", "w", "a", "r", "e">>, <<"u", "n", "a", "u", "t", "h", "o", "r", "i", "z", "e", "d">>} : Contains(text, w)

\* FINANCIAL_RISK_PATTERNS.some((p) => p.test(event.description))
IsFinancialRisk(description) ==
    LET text == ToLower(description)
    IN \/ \E p \in {<<<<"g", "o", "l", "d">>, <<"f", "u", "n", "d">>>>, <<<<"h", "i", "g", "h">>, <<"r", "e", "t", "u", "r", "n">>>>, <<<<"1", "5", "%">>, <<"r", "e", "t", "u", "r", "n">>>>, <<<<"i", "n", "v", "e", "s", "t", "m", "e", "n", "t">>, <<"s", "c", "a", "m">>>>, <<<<"i", "n", "v", "e", "s", "t", "m", "e", "n", "t">>, <<"r", "i", "s", "k">>>>, <<<<"g", "u", "a", "r", "a", "n", "t", "e", "e", "d">>, <<"r", "e", "t", "u", "r", "n">>>>, <<<<"s", "u", "s", "p", "i", "c", "i", "o", "u", "s">>, <<"i", "n", "v", "e", "s", "t">>>>, <<<<"f", "i", "n", "a", "n", "c", "i", "a", "l">>, <<"r", "i", "s", "k">>>>, <<<<"r", "i", "s", "k", "y">>, <<"i", "n", "v", "e", "s", "t">>>>, <<<<"u", "n", "r", "e", "g", "i", "s", "t", "e", "r", "e", "d">>, <<"f", "u", "n", "d">>>>} :
             SubThenSub(text, p[1], p[2])
       \/ Contains(text, <<"p", "o", "n", "z", "i">>)
       \/ SubThenSubThenSub(text, <<"t", "o", "o">>, <<"g", "o", "o", "d">>,
                             <<"t", "r", "u", "e">>)

\* event.impact !== "Negative" || event.intensity < 3, negated, for any
\* intensity.
MutSevereAnyIntensity(event) == event.impact = "Negative"

\* event.impact !== "Negative" || event.intensity < 3, negated.
Severe(event) == event.impact = "Negative" /\ event.intensity >= 3

\* n && n.type === "member" && "role" in n && n.role === role, for the
\* node nodes.find((n) => n.id === id).
IsMemberOfRole(nodes, id, role) ==
    LET i == FindIndex(nodes, id)
    IN i # 0 /\ nodes[i].type = "member" /\ nodes[i].role = role

\* event.involvedMembers.map(...).find(...): the position in nodes of the
\* first involved member of the role, 0 when there is none.
FirstInvolved(nodes, involved, role) ==
    LET hits == {k \in 1..Len(involved) : IsMemberOfRole(nodes, involved[k], role)}
    IN IF hits = {} THEN 0
       ELSE FindIndex(nodes, involved[CHOOSE k \in hits : \A j \in hits : k <= j])

\* nodes.find((n) => n.type === "member" && n.role === role)
FirstOfRole(nodes, role) ==
    LET hits == {i \in 1..Len(nodes) :
                    nodes[i].type = "member" /\ nodes[i].role = role}
    IN IF hits = {} THEN 0 ELSE CHOOSE i \in hits : \A j \in hits : i <= j

\* anyParent taken from the node list only.
MutAnyParentFromList(nodes, involved) == FirstOfRole(nodes, "parent")

\* involvedParent ?? nodes.find(parent)
AnyParent(nodes, involved) ==
    IF FirstInvolved(nodes, involved, "parent") # 0
    THEN FirstInvolved(nodes, involved, "parent")
    ELSE FirstOfRole(nodes, "parent")

\* The first node of riskLevel high at the other end of an edge of the
\* relations that touches the member; "" when there is none.
TargetOf(nodes, edges, memberId, relations) ==
    LET touching == SelectSeq(edges,
                        LAMBDA e : /\ e.source = memberId \/ e.target = memberId
                                   /\ e.relation \in relations)
        other(k) == IF touching[k].source = memberId
                    THEN touching[k].target ELSE touching[k].source
        hits == {k \in 1..Len(touching) :
                    /\ FindIndex(nodes, other(k)) # 0
                    /\ nodes[FindIndex(nodes, other(k))].riskLevel = "high"}
    IN IF hits = {} THEN << >>
       ELSE other(CHOOSE k \in hits : \A j \in hits : k <= j)

\* Lines 54-104 of high-risk-handler.ts, from event i on; << >> is null.
RECURSIVE HighRiskFrom(_, _, _, _)
HighRiskFrom(events, nodes, edges, i) ==
    IF i > Len(events) THEN << >>
    ELSE LET event == events[i]
             childNode == FirstInvolved(nodes, event.involvedMembers, "child")
             anyParent == AnyParent(nodes, event.involvedMembers)
         IN IF ~Severe(event) THEN HighRiskFrom(events, nodes, edges, i + 1)
            ELSE IF ~IsAppRisk(event.description)
                 THEN HighRiskFrom(events, nodes, edges, i + 1)
            ELSE IF childNode = 0 THEN HighRiskFrom(events, nodes, edges, i + 1)
            ELSE IF anyParent = 0 THEN HighRiskFrom(events, nodes, edges, i + 1)
            ELSE << [eventId |-> event.id,
                     targetNodeId |-> TargetOf(nodes, edges, nodes[childNode].id,
                                               {"owns_device", "installed_on"}),
                     childId |-> nodes[childNode].id,
                     childLabel |-> nodes[childNode].label,
                     parentId |-> nodes[anyParent].id,
                     parentLabel |-> nodes[anyParent].label] >>

handle_high_risk_event(events, nodes, edges) == HighRiskFrom(events, nodes, edges, 1)

\* Lines 60-126 of mediator.ts, from event i on; << >> is null.
RECURSIVE MediatorFrom(_, _, _, _)
MediatorFrom(events, nodes, edges, i) ==
    IF i > Len(events) THEN << >>
    ELSE LET event == events[i]
             elderNode == FirstInvolved(nodes, event.involvedMembers, "grandparent")
             anyParent == AnyParent(nodes, event.involvedMembers)
         IN IF ~Severe(event) THEN MediatorFrom(events, nodes, edges, i + 1)
            ELSE IF ~IsFinancialRisk(event.description)
                 THEN MediatorFrom(events, nodes, edges, i + 1)
            ELSE IF elderNode = 0 THEN MediatorFrom(events, nodes, edges, i + 1)
            ELSE IF anyParent = 0 THEN MediatorFrom(events, nodes, edges, i + 1)
            ELSE << [eventId |-> event.id,
                     targetNodeId |-> TargetOf(nodes, edges, nodes[elderNode].id,
                                               {"authored", "related_to"}),
                     elderId |-> nodes[elderNode].id,
                     elderLabel |-> nodes[elderNode].label,
                     parentId |-> nodes[anyParent].id,
                     parentLabel |-> nodes[anyParent].label] >>

livo_mediator(events, nodes, edges) == MediatorFrom(events, nodes, edges, 1)

\* A node as the detectors read it.
AlertNode(id, type, role, label, riskLevel) ==
    [id |-> id, type |-> type, role |-> role, label |-> label,
     riskLevel |-> riskLevel]

\* m-a (absent or a parent), m-b (a parent or a child), m-c (a child or a
\* grandparent), d-1 (a device of high or low risk).
AlertNodeLists ==
    {a \o <<b, c, d>> :
        a \in OptSeq({AlertNode(IdA, "member", "parent", "Dad", Undefined)}),
        b \in {AlertNode(IdB, "member", r, "Mom", Undefined) : r \in {"parent", "child"}},
        c \in {AlertNode(IdC, "member", r, "Kim", Undefined) :
                  r \in {"child", "grandparent"}},
        d \in {AlertNode(IdD, "device", Undefined, "Phone", r) : r \in {"high", "low"}}}

\* An edge between the third member and the device, in either direction,
\* of a relation of one of the detectors.
AlertEdgeSet ==
    {[source |-> p[1], target |-> p[2], relation |-> r] :
        p \in {<<IdC, IdD>>, <<IdD, IdC>>},
        r \in {"owns_device", "authored"}}

\* At most one such edge, then at most one from the second member.
AlertEdgeLists ==
    {c \o b : c \in OptSeq(AlertEdgeSet),
              b \in OptSeq({[source |-> IdB, target |-> IdD,
                             relation |-> "owns_device"]})}

EventBody(description, impact, intensity, involvedMembers) ==
    [description |-> description, impact |-> impact, intensity |-> intensity,
     involvedMembers |-> involvedMembers]

\* Events without their ids: for each detector a severe matching event of
\* either involvement, a mild one and a Positive one, and severe events
\* that match no pattern.
EventBodies ==
    {EventBody(d, "Negative", 3, m) :
        d \in {DescApp, DescGold, DescNone}, m \in {<<IdC>>, <<IdC, IdB, IdA>>}}
    \cup {EventBody(d, s[1], s[2], <<IdC, IdB, IdA>>) :
             d \in {DescApp, DescGold}, s \in {<<"Negative", 2>>, <<"Positive", 3>>}}

\* Event i of the list has id i.
EventLists ==
    {[i \in 1..n |->
         [id |-> i, description |-> b[i].description, impact |-> b[i].impact,
          intensity |-> b[i].intensity, involvedMembers |-> b[i].involvedMembers]] :
        n \in 0..0, b \in {<< >>}}
    \cup UNION {{[i \in 1..n |->
                    [id |-> i, description |-> b[i].description,
                     impact |-> b[i].impact, intensity |-> b[i].intensity,
                     involvedMembers |-> b[i].involvedMembers]] :
                    b \in [1..n -> EventBodies]} : n \in 1..MaxEvents}

InitAlerts ==
    /\ \E es \in EventLists, ns \in AlertNodeLists, ed \in AlertEdgeLists :
          alerts = [synapseEvents |-> es, nodes |-> ns, edges |-> ed,
                    highRiskAlert |-> << >>, mediatorAlert |-> << >>]
    /\ pc = "events"
    /\ GateIdle /\ CallsIdle /\ OwnerIdle /\ FilterIdle
    /\ ScholarIdle /\ VariantIdle /\ PageIdle

\* page.tsx lines 38-47.
HandleHighRiskEvent ==
    /\ pc = "events"
    /\ alerts' = [alerts EXCEPT
                     !.highRiskAlert =
                         handle_high_risk_event(alerts.synapseEvents, alerts.nodes,
                                                alerts.edges)]
    /\ pc' = "handled"
    /\ UNCHANGED <<fullData, viewerId, rawData, regated>>
    /\ UNCHANGED <<seen, ownerQuery, ownerFound, data, vf, scholar, variant>>
    /\ UNCHANGED pageVars

\* page.tsx lines 49-58.
LivoMediator ==
    /\ pc = "handled"
    /\ alerts' = [alerts EXCEPT
                     !.mediatorAlert =
                         livo_mediator(alerts.synapseEvents, alerts.nodes, alerts.edges)]
    /\ pc' = "mediated"
    /\ UNCHANGED <<fullData, viewerId, rawData, regated>>
    /\ UNCHANGED <<seen, ownerQuery, ownerFound, data, vf, scholar, variant>>
    /\ UNCHANGED pageVars

NextAlerts == HandleHighRiskEvent \/ LivoMediator

SpecAlerts == InitAlerts /\ [][NextAlerts]_vars

\* ------------------------------------------------------------------------
\* Vocabulary for the detectors

AlertNodes == {alerts.nodes[i] : i \in 1..Len(alerts.nodes)}

ParentNodes == {n \in AlertNodes : n.type = "member" /\ n.role = "parent"}

\* The event meets the detection criteria for the role; matches says
\* whether its description matches the detector's patterns.
Qualifies(event, role, matches) ==
    /\ event.impact = "Negative"
    /\ event.intensity >= 3
    /\ matches
    /\ \E k \in 1..Len(event.involvedMembers) :
          \E n \in AlertNodes :
              n.id = event.involvedMembers[k] /\ n.type = "member" /\ n.role = role
    /\ ParentNodes # {}

ChildEvents ==
    {i \in 1..Len(alerts.synapseEvents) :
        Qualifies(alerts.synapseEvents[i], "child",
                  IsAppRisk(alerts.synapseEvents[i].description))}

ElderEvents ==
    {i \in 1..Len(alerts.synapseEvents) :
        Qualifies(alerts.synapseEvents[i], "grandparent",
                  IsFinancialRisk(alerts.synapseEvents[i].description))}

Earliest(S) == CHOOSE i \in S : \A j \in S : i <= j

\* ------------------------------------------------------------------------
\* C26.  Each detector returns an alert if and only if some event has
\* impact Negative, intensity >= 3, a description matching its patterns,
\* an involved member that is a member node of its role (child, resp.
\* grandparent) and a parent member exists in the node list; the alert is
\* for the earliest such event, events failing a criterion being skipped.
C26_AlertIffEarliestQualifyingEvent ==
    pc = "mediated" =>
        /\ alerts.highRiskAlert # << >> <=> ChildEvents # {}
        /\ ChildEvents # {} =>
              alerts.highRiskAlert[1].eventId =
                  alerts.synapseEvents[Earliest(ChildEvents)].id
        /\ alerts.mediatorAlert # << >> <=> ElderEvents # {}
        /\ ElderEvents # {} =>
              alerts.mediatorAlert[1].eventId =
                  alerts.synapseEvents[Earliest(ElderEvents)].id

\* The first event is negative and matches but is too mild; the detector
\* skips it and alerts for the second.
C26_Witness ==
    /\ pc = "mediated"
    /\ Len(alerts.synapseEvents) = 2
    /\ alerts.synapseEvents[1].impact = "Negative"
    /\ alerts.synapseEvents[1].intensity < 3
    /\ IsAppRisk(alerts.synapseEvents[1].description)
    /\ alerts.highRiskAlert # << >>
    /\ alerts.highRiskAlert[1].eventId = 2
    /\ alerts.mediatorAlert = << >>

\* The alert's parent and target are the ones described, for the event
\* and the member (child or elder) of the alert.
RightParentAndTarget(alert, memberId, relations) ==
    LET involved == alerts.synapseEvents[alert.eventId].involvedMembers
        named == {k \in 1..Len(involved) :
                     \E n \in ParentNodes : n.id = involved[k]}
        listed == {i \in 1..Len(alerts.nodes) : alerts.nodes[i] \in ParentNodes}
    IN /\ IF named # {}
          THEN alert.parentId = involved[Earliest(named)]
          ELSE alert.parentId = alerts.nodes[Earliest(listed)].id
       /\ \/ alert.targetNodeId = << >>
          \/ \E n \in AlertNodes :
                /\ n.id = alert.targetNodeId
                /\ n.riskLevel = "high"
                /\ \E i \in 1..Len(alerts.edges) :
                      /\ alerts.edges[i].relation \in relations
                      /\ {alerts.edges[i].source, alerts.edges[i].target}
                            = {memberId, n.id}

\* ------------------------------------------------------------------------
\* C27.  In an alert, parentId is the first id in the event's
\* involvedMembers that names a member node of role parent when there is
\* one, and otherwise the first node of role parent in the node list;
\* targetNodeId is the empty string or the id of a node of riskLevel high
\* joined to the child (resp. elder) by an owns_device or installed_on
\* (resp. authored or related_to) edge.
C27_ParentAndTargetOfAlert ==
    pc = "mediated" =>
        /\ alerts.highRiskAlert # << >> =>
              RightParentAndTarget(alerts.highRiskAlert[1],
                                   alerts.highRiskAlert[1].childId,
                                   {"owns_device", "installed_on"})
        /\ alerts.mediatorAlert # << >> =>
              RightParentAndTarget(alerts.mediatorAlert[1],
                                   alerts.mediatorAlert[1].elderId,
                                   {"authored", "related_to"})

\* An alert whose parent is the involved parent m-b although m-a comes
\* first in the node list, with a high-risk target.
C27_Witness ==
    /\ pc = "mediated"
    /\ alerts.highRiskAlert # << >>
    /\ alerts.nodes[1].id = IdA
    /\ alerts.highRiskAlert[1].parentId = IdB
    /\ alerts.highRiskAlert[1].targetNodeId = IdD

\* ------------------------------------------------------------------------
\* src/src/app/page.tsx: coach, selection and alerts of the home page

IdF == <<"d", "-", "2">>
IdL == <<"d", "-", "3">>

\* The nodes the effects look up: two parents, a child, the app of the
\* high-risk alert, the fund of the mediator alert and a low-risk device.
MockNodes ==
    <<AlertNode(IdA, "member", "parent", "Dad", Undefined),
      AlertNode(IdB, "member", "parent", "Mom", Undefined),
      AlertNode(IdC, "member", "child", "Kim", Undefined),
      AlertNode(IdD, "device", Undefined, "App", "high"),
      AlertNode(IdF, "document", Undefined, "Fund", "high"),
      AlertNode(IdL, "device", Undefined, "Phone", "low")>>

\* null, or an alert for a parent with an empty or a high-risk target.
AlertsOn(target) ==
    {<< >>} \cup {<<[parentId |-> p, targetNodeId |-> t]>> :
                     p \in {IdA, IdB}, t \in {<< >>, target}}

\* useState initial values, lines 25-31; DEFAULT_SETTINGS.viewerId is the
\* first parent.
InitialState ==
    [viewerId |-> IdA, selectedNodeId |-> << >>, coachNodeId |-> << >>,
     mediatorShown |-> FALSE]

\* Lines 200-213, run with the values cl of the render; s collects the
\* state updates of the batch.
HighRiskEffect(cl, s, highRiskAlert) ==
    IF highRiskAlert = << >> THEN s
    ELSE LET s1 == IF cl.viewerId # highRiskAlert[1].parentId
                   THEN [s EXCEPT !.viewerId = highRiskAlert[1].parentId]
                   ELSE s
         IN IF highRiskAlert[1].targetNodeId # << >>
            THEN [s1 EXCEPT !.coachNodeId = highRiskAlert[1].targetNodeId,
                            !.selectedNodeId = highRiskAlert[1].targetNodeId]
            ELSE s1

\* Lines 215-231.
MediatorEffect(cl, s, highRiskAlert, mediatorAlert) ==
    IF mediatorAlert = << >> THEN s
    ELSE IF highRiskAlert # << >> THEN s
    ELSE LET s1 == IF cl.viewerId # mediatorAlert[1].parentId
                   THEN [s EXCEPT !.viewerId = mediatorAlert[1].parentId]
                   ELSE s
         IN IF mediatorAlert[1].targetNodeId # << >>
            THEN [s1 EXCEPT !.coachNodeId = mediatorAlert[1].targetNodeId,
                            !.selectedNodeId = mediatorAlert[1].targetNodeId,
                            !.mediatorShown = TRUE]
            ELSE s1

\* Lines 233-242.
SurfaceEffect(cl, s, highRiskAlert, mediatorAlert) ==
    IF mediatorAlert = << >> \/ highRiskAlert = << >> \/ cl.mediatorShown THEN s
    ELSE IF cl.coachNodeId = << >> /\ mediatorAlert[1].targetNodeId # << >>
         THEN [s EXCEPT !.coachNodeId = mediatorAlert[1].targetNodeId,
                        !.selectedNodeId = mediatorAlert[1].targetNodeId,
                        !.mediatorShown = TRUE]
         ELSE s

\* Lines 244-255.
SelectedEffect(cl, s) ==
    IF cl.selectedNodeId = << >> THEN s
    ELSE IF \/ FindIndex(MockNodes, cl.selectedNodeId) = 0
            \/ MockNodes[FindIndex(MockNodes, cl.selectedNodeId)].riskLevel # "high"
         THEN s
    ELSE IF \/ FindIndex(MockNodes, cl.viewerId) = 0
            \/ MockNodes[FindIndex(MockNodes, cl.viewerId)].role # "parent"
         THEN s
    ELSE [s EXCEPT !.coachNodeId = cl.selectedNodeId]

\* The page before its first commit.  rendered holds the values of the
\* last render whose effects have run; closed and touched record that the
\* user closed the coach, resp. did anything at all.
InitHome ==
    /\ \E h \in AlertsOn(IdD), m \in AlertsOn(IdF) :
          dashboard = [highRiskAlert |-> h, mediatorAlert |-> m,
                       state |-> InitialState, rendered |-> << >>,
                       closed |-> FALSE, touched |-> FALSE]
    /\ pc = "page"
    /\ GateIdle /\ CallsIdle /\ OwnerIdle /\ FilterIdle
    /\ ScholarIdle /\ VariantIdle /\ AlertsIdle /\ ImporterIdle /\ CelebrationIdle

HomeUnchanged ==
    /\ UNCHANGED <<fullData, viewerId, rawData, regated, pc>>
    /\ UNCHANGED <<seen, ownerQuery, ownerFound, data, vf, scholar, variant>>
    /\ UNCHANGED <<alerts, importer, celebration>>

\* The first commit: the four effects run in order, all on the values of
\* the first render, and their updates are applied as one batch.
Mount ==
    /\ dashboard.rendered = << >>
    /\ LET cl == dashboard.state
           h == dashboard.highRiskAlert
           m == dashboard.mediatorAlert
       IN dashboard' =
              [dashboard EXCEPT
                  !.state = SelectedEffect(cl,
                                SurfaceEffect(cl,
                                    MediatorEffect(cl, HighRiskEffect(cl, cl, h), h, m),
                                    h, m)),
                  !.rendered = <<cl>>]
    /\ HomeUnchanged

\* A later commit: the effects whose dependencies changed since the last
\* render run on the values of this render.
Rerender ==
    /\ dashboard.rendered # << >>
    /\ dashboard.rendered[1] # dashboard.state
    /\ LET cl == dashboard.state
           was == dashboard.rendered[1]
           h == dashboard.highRiskAlert
           m == dashboard.mediatorAlert
           s3 == IF \/ cl.coachNodeId # was.coachNodeId
                    \/ cl.mediatorShown # was.mediatorShown
                 THEN SurfaceEffect(cl, cl, h, m) ELSE cl
           s4 == IF \/ cl.selectedNodeId # was.selectedNodeId
                    \/ cl.viewerId # was.viewerId
                 THEN SelectedEffect(cl, s3) ELSE s3
       IN dashboard' = [dashboard EXCEPT !.state = s4, !.rendered = <<cl>>]
    /\ HomeUnchanged

\* The effects of the last render have run.
Settled == dashboard.rendered = <<dashboard.state>>

\* Line 369: onClose of the coach.
CloseCoach ==
    /\ Settled
    /\ dashboard.state.coachNodeId # << >>
    /\ dashboard' = [dashboard EXCEPT !.state.coachNodeId = << >>,
                                      !.closed = TRUE, !.touched = TRUE]
    /\ HomeUnchanged

\* Lines 276, 287, 303, 347, 362: a node is selected or deselected.
SelectNode ==
    /\ Settled
    /\ \E id \in {<< >>} \cup {MockNodes[i].id : i \in 1..Len(MockNodes)} :
          dashboard' = [dashboard EXCEPT !.state.selectedNodeId = id,
                                         !.touched = TRUE]
    /\ HomeUnchanged

\* Line 263: the settings panel changes the viewer.
SwitchViewer ==
    /\ Settled
    /\ \E id \in {IdA, IdB, IdC} :
          dashboard' = [dashboard EXCEPT !.state.viewerId = id, !.touched = TRUE]
    /\ HomeUnchanged

NextHome == Mount \/ Rerender \/ CloseCoach \/ SelectNode \/ SwitchViewer

SpecHome == InitHome /\ [][NextHome]_vars

\* Both alerts exist and have targets.
BothTargets ==
    /\ dashboard.highRiskAlert # << >>
    /\ dashboard.mediatorAlert # << >>
    /\ dashboard.highRiskAlert[1].targetNodeId # << >>
    /\ dashboard.mediatorAlert[1].targetNodeId # << >>

\* ------------------------------------------------------------------------
\* C28.  When both alerts exist with non-empty targets, once the mount
\* effects have run (and until the user does something) the coach is open
\* on the high-risk alert's target, and the mediator's target has been
\* surfaced only if the coach has been closed.
C28_HighRiskAlertFirst ==
    BothTargets =>
        /\ dashboard.rendered # << >> /\ ~dashboard.touched =>
              dashboard.state.coachNodeId = dashboard.highRiskAlert[1].targetNodeId
        /\ dashboard.state.mediatorShown => dashboard.closed

\* What the effects do instead: with both targets, the coach is on the
\* mediator's target from the first commit on, until the user acts.
C28_MediatorTargetOnMount ==
    BothTargets /\ dashboard.rendered # << >> /\ ~dashboard.touched =>
        /\ dashboard.state.coachNodeId = dashboard.mediatorAlert[1].targetNodeId
        /\ dashboard.state.mediatorShown

\* mediatorShown never returns to false.
C28_ShownStaysShown ==
    [][dashboard.state.mediatorShown => dashboard'.state.mediatorShown]_vars

\* ------------------------------------------------------------------------
\* src/src/app/page.tsx: staggered import

\* Imports during one visit, and nodes in an imported file.
MaxImports == 2
MaxImportNodes == 2

\* Nodes of an imported file, by id; an edge may name an id that no node
\* of the file has.
ImportNodeLists == UNION {[1..n -> {IdA, IdD}] : n \in 0..MaxImportNodes}

ImportEdgeSet ==
    {[source |-> IdA, target |-> IdD], [source |-> IdD, target |-> IdA],
     [source |-> IdA, target |-> IdM]}

ImportEdgeLists == UNION {[1..n -> ImportEdgeSet] : n \in 0..MaxEdges}

\* JSON.parse of the file: each of nodes and edges is an array or missing.
ParsedFiles ==
    {[nodes |-> ns, edges |-> es] :
        ns \in {<<n>> : n \in ImportNodeLists}, es \in {<<e>> : e \in ImportEdgeLists}}
    \cup {[nodes |-> << >>, edges |-> << << >> >>],
          [nodes |-> << << >> >>, edges |-> << >>]}

\* importData.nodes.slice(0, revealCount)
Slice(nodes, count) ==
    SubSeq(nodes, 1, IF count < Len(nodes) THEN count ELSE Len(nodes))

\* Lines 138-147; << >> is null.
overrideData ==
    IF importer.importData = << >> THEN << >>
    ELSE LET visibleNodes == Slice(importer.importData[1].nodes, importer.revealCount)
             visibleIds == {visibleNodes[i] : i \in 1..Len(visibleNodes)}
         IN << [nodes |-> visibleNodes,
                edges |-> SelectSeq(importer.importData[1].edges,
                                    LAMBDA e : /\ e.source \in visibleIds
                                               /\ e.target \in visibleIds)] >>

\* clearInterval(handle); handle 0 is null.
ClearInterval(intervals, handle) ==
    [h \in DOMAIN intervals \ {handle} |-> intervals[h]]

\* Lines 59-61: no import yet.  intervals holds the counter and the total
\* of every interval that has been set and not cleared; imports counts
\* the files read.
InitImport ==
    /\ importer = [importData |-> << >>, revealCount |-> 0, staggerTimerRef |-> 0,
                   intervals |-> << >>, imports |-> 0]
    /\ pc = "page"
    /\ GateIdle /\ CallsIdle /\ OwnerIdle /\ FilterIdle
    /\ ScholarIdle /\ VariantIdle /\ AlertsIdle /\ DashboardIdle /\ CelebrationIdle

ImportUnchanged ==
    /\ UNCHANGED <<fullData, viewerId, rawData, regated, pc>>
    /\ UNCHANGED <<seen, ownerQuery, ownerFound, data, vf, scholar, variant>>
    /\ UNCHANGED <<alerts, dashboard, celebration>>

\* Lines 95-122: reader.onload for one file.
HandleImport ==
    /\ importer.imports < MaxImports
    /\ \E parsed \in ParsedFiles :
          IF parsed.nodes = << >> \/ parsed.edges = << >>
          THEN importer' = [importer EXCEPT !.imports = @ + 1]
          ELSE LET handle == importer.imports + 1
                   kept == IF importer.staggerTimerRef # 0
                           THEN ClearInterval(importer.intervals,
                                              importer.staggerTimerRef)
                           ELSE importer.intervals
               IN importer' =
                      [importData |-> <<[nodes |-> parsed.nodes[1],
                                         edges |-> parsed.edges[1]]>>,
                       revealCount |-> 0,
                       staggerTimerRef |-> handle,
                       intervals |->
                           [h \in DOMAIN kept \cup {handle} |->
                               IF h = handle
                               THEN [count |-> 0, total |-> Len(parsed.nodes[1])]
                               ELSE kept[h]],
                       imports |-> importer.imports + 1]
    /\ ImportUnchanged

\* Lines 114-121: one tick of an interval that has not been cleared.
Tick ==
    /\ \E h \in DOMAIN importer.intervals :
          LET count == importer.intervals[h].count + 1
              counted == [importer.intervals EXCEPT ![h].count = count]
          IN importer' =
                 IF count >= importer.intervals[h].total
                 THEN [importer EXCEPT
                          !.revealCount = count,
                          !.intervals =
                              IF importer.staggerTimerRef # 0
                              THEN ClearInterval(counted, importer.staggerTimerRef)
                              ELSE counted,
                          !.staggerTimerRef = 0]
                 ELSE [importer EXCEPT !.revealCount = count,
                                       !.intervals = counted]
    /\ ImportUnchanged

NextImport == HandleImport \/ Tick

SpecImport == InitImport /\ [][NextImport]_vars

\* The timer fires as long as its interval is set.
SpecImportFair == SpecImport /\ WF_vars(Tick)

Imported == importer.importData # << >>

ImportedNodes == importer.importData[1].nodes

\* Every edge shown joins two revealed nodes.
EdgesAmongRevealed ==
    LET shown == overrideData[1]
        ids == {shown.nodes[i] : i \in 1..Len(shown.nodes)}
    IN \A i \in 1..Len(shown.edges) :
           shown.edges[i].source \in ids /\ shown.edges[i].target \in ids

\* ------------------------------------------------------------------------
\* C29.  After a file with nodes and edges arrays is imported, revealCount
\* never exceeds the number of imported nodes, at most one interval is
\* set, and overrideData contains only edges whose both endpoints are
\* among the revealed nodes.
C29_RevealWithinBounds ==
    Imported =>
        /\ importer.revealCount <= Len(ImportedNodes)
        /\ Cardinality(DOMAIN importer.intervals) <= 1
        /\ EdgesAmongRevealed

\* The same for every import but that of an empty nodes array, where the
\* count passes the total by one.
C29_WithinBoundsUnlessEmpty ==
    Imported =>
        /\ importer.revealCount <= (IF ImportedNodes = << >> THEN 1
                                    ELSE Len(ImportedNodes))
        /\ Cardinality(DOMAIN importer.intervals) <= 1
        /\ DOMAIN importer.intervals \subseteq {importer.staggerTimerRef}
        /\ EdgesAmongRevealed

\* revealCount rises by one per tick, from 0 at the import.
C29_OnePerTick ==
    [][/\ Tick => importer'.revealCount = importer.revealCount + 1
       /\ HandleImport /\ importer'.importData # importer.importData =>
              importer'.revealCount = 0]_vars

\* Once no further file is read, every node of the last file is revealed
\* and the interval is cleared.
C29_EventuallyRevealed ==
    <>[](Imported =>
            /\ importer.revealCount >= Len(ImportedNodes)
            /\ importer.intervals = << >>
            /\ importer.staggerTimerRef = 0)

\* ------------------------------------------------------------------------
\* src/src/components/LivoCoach.tsx: useCelebration

\* Timers set during one visit.
MaxTriggers == 3

\* Two Positive events; the second may share a member with the first.
CelebrationEvents ==
    {<<[id |-> "e1", impact |-> "Positive", intensity |-> i1, involvedMembers |-> m1],
       [id |-> "e2", impact |-> "Positive", intensity |-> i2, involvedMembers |-> m2]>> :
        i1 \in {3, 5}, i2 \in {3, 5},
        m1 \in {<<IdA>>, <<IdA, IdB>>}, m2 \in {<<IdB>>, <<IdB, IdC>>, <<IdC>>}}

\* events.find((e) => e.id === eventId): its position, 0 when not found.
FindEvent(events, eventId) ==
    LET hits == {i \in 1..Len(events) : events[i].id = eventId}
    IN IF hits = {} THEN 0 ELSE CHOOSE i \in hits : \A j \in hits : i <= j

MembersOf(event) == {event.involvedMembers[i] : i \in 1..Len(event.involvedMembers)}

\* Map.delete / clearTimeout: the function without the key.
Without(f, key) == [k \in DOMAIN f \ {key} |-> f[k]]

\* Lines 724-751, on the hook's state c.  timersRef maps an event id to
\* the handle of its timer, timeouts maps the handle of every timer that
\* is set and not cleared to its event id.
triggerCelebration(c, eventId) ==
    IF FindEvent(c.events, eventId) = 0 THEN c
    ELSE LET event == c.events[FindEvent(c.events, eventId)]
             cleared == IF eventId \in DOMAIN c.timersRef
                        THEN Without(c.timeouts, c.timersRef[eventId])
                        ELSE c.timeouts
             timer == c.handles + 1
         IN [c EXCEPT
                !.celebratingMembers = @ \cup MembersOf(event),
                !.timeouts = [h \in DOMAIN cleared \cup {timer} |->
                                 IF h = timer THEN eventId ELSE cleared[h]],
                !.timersRef = [k \in DOMAIN c.timersRef \cup {eventId} |->
                                  IF k = eventId THEN timer ELSE c.timersRef[k]],
                !.handles = timer]

\* Lines 758-762: triggerCelebration for each event of the list from
\* position i on that is Positive with intensity >= 4.
RECURSIVE TriggerHighImpact(_, _)
TriggerHighImpact(c, i) ==
    IF i > Len(c.events) THEN c
    ELSE IF c.events[i].impact = "Positive" /\ c.events[i].intensity >= 4
         THEN TriggerHighImpact(triggerCelebration(c, c.events[i].id), i + 1)
         ELSE TriggerHighImpact(c, i + 1)

\* Lines 709-711.
InitCelebration ==
    /\ \E es \in CelebrationEvents :
          celebration = [events |-> es, celebratingMembers |-> {},
                         timersRef |-> << >>, timeouts |-> << >>,
                         handles |-> 0, mounted |-> FALSE]
    /\ pc = "page"
    /\ GateIdle /\ CallsIdle /\ OwnerIdle /\ FilterIdle
    /\ ScholarIdle /\ VariantIdle /\ AlertsIdle /\ DashboardIdle /\ ImporterIdle

CelebrationUnchanged ==
    /\ UNCHANGED <<fullData, viewerId, rawData, regated, pc>>
    /\ UNCHANGED <<seen, ownerQuery, ownerFound, data, vf, scholar, variant>>
    /\ UNCHANGED <<alerts, dashboard, importer>>

\* Lines 757-764: the effect of the first commit.
MountCelebration ==
    /\ ~celebration.mounted
    /\ celebration' = [TriggerHighImpact(celebration, 1) EXCEPT !.mounted = TRUE]
    /\ CelebrationUnchanged

\* A reward card's onCelebrate calls triggerCelebration; "e9" is the id of
\* no event.
TriggerCelebration ==
    /\ celebration.mounted
    /\ celebration.handles < MaxTriggers
    /\ \E eventId \in {"e1", "e2", "e9"} :
          celebration' = triggerCelebration(celebration, eventId)
    /\ CelebrationUnchanged

\* Lines 738-746: the timer of handle h fires.
Expire ==
    /\ \E h \in DOMAIN celebration.timeouts :
          LET eventId == celebration.timeouts[h]
              event == celebration.events[FindEvent(celebration.events, eventId)]
          IN celebration' =
                 [celebration EXCEPT
                     !.celebratingMembers = @ \ MembersOf(event),
                     !.timersRef = Without(@, eventId),
                     !.timeouts = Without(@, h)]
    /\ CelebrationUnchanged

NextCelebration == MountCelebration \/ TriggerCelebration \/ Expire

SpecCelebration == InitCelebration /\ [][NextCelebration]_vars

\* The events whose expiry timer is set and has not fired.
PendingEvents ==
    {celebration.events[FindEvent(celebration.events, celebration.timeouts[h])] :
        h \in DOMAIN celebration.timeouts}

\* ------------------------------------------------------------------------
\* C30.  A member is in celebratingMembers for as long as any triggered
\* celebration whose expiry timer has not yet fired involves that member,
\* and no member is left once all timers have fired.
C30_MemberStaysWhileCelebrated ==
    /\ \A event \in PendingEvents : MembersOf(event) \subseteq celebration.celebratingMembers
    /\ celebration.timeouts = << >> => celebration.celebratingMembers = {}

\* What holds instead: a member of a pending celebration stays unless
\* another event involves the member too; each event has at most one timer
\* set; nobody celebrates once all timers have fired.
C30_StaysUnlessShared ==
    /\ \A event \in PendingEvents :
          \A m \in MembersOf(event) :
              \/ m \in celebration.celebratingMembers
              \/ \E i \in 1..Len(celebration.events) :
                    /\ celebration.events[i] # event
                    /\ m \in MembersOf(celebration.events[i])
    /\ \A h \in DOMAIN celebration.timeouts :
          /\ celebration.timeouts[h] \in DOMAIN celebration.timersRef
          /\ celebration.timersRef[celebration.timeouts[h]] = h
    /\ celebration.timeouts = << >> => celebration.celebratingMembers = {}

====
